---- MODULE Spec2Model ----
(***************************************************************************)
(* Model of src/smart_ocr.py: the extraction / reconciliation engine of    *)
(* SmartOCRExtractor (extract_transactions_from_text and                   *)
(* _supplement_missing_transactions).                                      *)
(*                                                                         *)
(* A text fragment is a sequence of characters.  A character is a one      *)
(* element string; a CJK character is written as a romanised token         *)
(* ("huan" for U+8FD8), so that len(), "in", slicing and the regular       *)
(* expressions of the source work on the same units as in Python.          *)
(***************************************************************************)
EXTENDS Integers, Sequences, FiniteSets, TLC

(***************************************************************************)
(* Characters and character classes                                        *)
(***************************************************************************)
Digits == {"0", "1", "2", "3", "4", "5", "6", "7", "8", "9"}

\* \s of the regular expressions
Whitespace == {" "}

\* the class [\d,]
DigitOrComma == Digits \cup {","}

\* the class [\d\s\-yen,\.] of the title rule
NumericPunct == Digits \cup Whitespace \cup {"-", "yen", ",", "."}

Min(S) == CHOOSE x \in S : \A y \in S : x <= y

\* text[k] (1-based), "" past either end
At(text, k) == IF k >= 1 /\ k <= Len(text) THEN text[k] ELSE ""

\* Python: word in text
Contains(text, word) ==
    \E k \in 1..(Len(text) - Len(word) + 1) :
        \A j \in 1..Len(word) : text[k + j - 1] = word[j]

\* Python: any(word in text for word in words)
ContainsAny(text, words) == \E w \in words : Contains(text, w)

\* word occurs in text at position k
WordAt(text, word, k) ==
    /\ k >= 1
    /\ k + Len(word) - 1 <= Len(text)
    /\ \A j \in 1..Len(word) : text[k + j - 1] = word[j]

\* length of the longest run of characters of class cls starting at k
RECURSIVE RunLen(_, _, _)
RunLen(text, k, cls) ==
    IF At(text, k) \in cls THEN 1 + RunLen(text, k + 1, cls) ELSE 0

\* Python: s.replace(',', '')
RECURSIVE StripCommas(_)
StripCommas(s) ==
    IF s = <<>> THEN <<>>
    ELSE IF Head(s) = "," THEN StripCommas(Tail(s))
    ELSE <<Head(s)>> \o StripCommas(Tail(s))

DigitValue(c) ==
    CASE c = "0" -> 0 [] c = "1" -> 1 [] c = "2" -> 2 [] c = "3" -> 3
      [] c = "4" -> 4 [] c = "5" -> 5 [] c = "6" -> 6 [] c = "7" -> 7
      [] c = "8" -> 8 [] c = "9" -> 9

DigitChar(n) ==
    CASE n = 0 -> "0" [] n = 1 -> "1" [] n = 2 -> "2" [] n = 3 -> "3"
      [] n = 4 -> "4" [] n = 5 -> "5" [] n = 6 -> "6" [] n = 7 -> "7"
      [] n = 8 -> "8" [] n = 9 -> "9"

\* Python: int(s) for a string of digits
RECURSIVE ToInt(_)
ToInt(s) ==
    IF s = <<>> THEN 0
    ELSE 10 * ToInt(SubSeq(s, 1, Len(s) - 1)) + DigitValue(s[Len(s)])

\* decimal digits of n >= 0
RECURSIVE DecimalDigits(_)
DecimalDigits(n) ==
    IF n < 10 THEN <<DigitChar(n)>>
    ELSE DecimalDigits(n \div 10) \o <<DigitChar(n % 10)>>

\* Python: f"{n:02d}"
Format02d(n) ==
    IF n < 10 THEN <<"0">> \o DecimalDigits(n) ELSE DecimalDigits(n)

(***************************************************************************)
(* Numbers: the strings captured by the numeric group of the amount and    *)
(* balance patterns, commas removed, hold digits and at most one "."       *)
(***************************************************************************)
\* float(s) does not raise ValueError
FloatParses(s) == \E k \in 1..Len(s) : s[k] \in Digits

\* float(s) > 0
FloatPositive(s) == \E k \in 1..Len(s) : s[k] \in Digits /\ s[k] # "0"

\* the digits before the "."
IntegerPart(s) == SubSeq(s, 1, RunLen(s, 1, Digits))

\* float(s) < 1000000
FloatBelowMillion(s) == ToInt(IntegerPart(s)) < 1000000

\* re.search(r'^\d{n}$', s)
AllDigitsOfLen(s, n) == Len(s) = n /\ \A k \in 1..n : s[k] \in Digits

\* re.search(r'^\d{2}\d{2}\.\d{2}$', s)
IsMMDDdotHH(s) ==
    /\ Len(s) = 7
    /\ \A k \in {1, 2, 3, 4, 6, 7} : s[k] \in Digits
    /\ s[5] = "."

\* re.search(r'^\d{2}\d{2}:\d{2}$', s)
IsMMDDcolonHH(s) ==
    /\ Len(s) = 7
    /\ \A k \in {1, 2, 3, 4, 6, 7} : s[k] \in Digits
    /\ s[5] = ":"

(***************************************************************************)
(* Words of the source, one token per character                            *)
(***************************************************************************)
W_HuanCheDai == <<"huan", "che", "dai">>
W_HuanXinYongKa == <<"huan", "xin", "yong", "ka">>
W_ZhuanZhang == <<"zhuan", "zhang">>
W_WeiXinZhiFu == <<"wei", "xin", "zhi1", "fu">>
W_ZhiFuBao == <<"zhi1", "fu", "bao3">>
W_RenShenBaoXianFei == <<"ren", "shen", "bao", "xian", "fei">>
W_GuanDaoMeiQiFei == <<"guan", "dao", "mei", "qi", "fei">>
W_YinHangKa == <<"yin", "hang", "ka">>
W_ChuXuKa == <<"chu", "xu", "ka">>
W_XinYongKa == <<"xin", "yong", "ka">>
W_XianJin == <<"xian4", "jin">>
W_CanYin == <<"can", "yin3">>
W_MeiShi == <<"mei3", "shi">>
W_HuanKuan == <<"huan", "kuan">>
W_DaiKuan == <<"dai", "kuan">>
W_WeiXinZhuanZhang == <<"wei", "xin", "zhuan", "zhang">>
W_BaoXian == <<"bao", "xian">>
W_ChongZhiJiaoFei == <<"chong", "zhi2", "jiao", "fei">>
W_ChongZhi == <<"chong", "zhi2">>
W_JiaoFei == <<"jiao", "fei">>
W_PingAnRenShou == <<"ping", "an", "ren", "shou">>
W_Yuan == <<"yuan">>
W_FullwidthYen == <<"fwyen">>
W_Yen == <<"yen">>
W_ZhiChu == <<"zhi1", "chu1">>
W_KouKuan == <<"kou", "kuan">>
W_ShouRu == <<"shou1", "ru">>
W_ShouKuan == <<"shou1", "kuan">>
W_TuiKuan == <<"tui", "kuan">>
W_YuE == <<"yu", "e">>
W_ZhangHuYuE == <<"zhang", "hu", "yu", "e">>
W_DangQianYuE == <<"dang", "qian", "yu", "e">>

\* the keyword list of the context-fallback and synthetic tiers
TransactionKeywords ==
    {W_HuanCheDai, W_HuanXinYongKa, W_ZhuanZhang, W_WeiXinZhiFu, W_ZhiFuBao,
     W_RenShenBaoXianFei, W_GuanDaoMeiQiFei}

\* payment_methods
PaymentMethods ==
    {W_WeiXinZhiFu, W_ZhiFuBao, W_YinHangKa, W_ChuXuKa, W_XinYongKa, W_XianJin}

\* the keyword list of the sub-title back-fill
SubTitleKeywords ==
    {W_CanYin, W_MeiShi, W_ZhuanZhang, W_HuanKuan, W_DaiKuan,
     W_WeiXinZhuanZhang, W_ChuXuKa, W_BaoXian, W_ChongZhiJiaoFei}

\* missing_keywords
MissingKeywords ==
    {W_PingAnRenShou, W_HuanCheDai, W_RenShenBaoXianFei, W_GuanDaoMeiQiFei,
     W_WeiXinZhiFu, W_ZhiFuBao, W_ZhuanZhang, W_HuanKuan, W_DaiKuan,
     W_BaoXian, W_ChongZhi, W_JiaoFei}

\* the payment methods of supplement pass 1
SupplementPaymentMethods == {W_WeiXinZhiFu, W_ZhiFuBao, W_YinHangKa}

(***************************************************************************)
(* The timestamp patterns.  Each is: two digits, a separator, two digits,  *)
(* whitespace (none, one or more, any), two digits, an optional middle     *)
(* character, two digits.  re.search returns the leftmost match.           *)
(***************************************************************************)
time_patterns ==
    << [sep |-> "-", ws |-> "none", mid |-> ":"],
       [sep |-> "-", ws |-> "plus", mid |-> ":"],
       [sep |-> "-", ws |-> "none", mid |-> "."],
       [sep |-> "-", ws |-> "none", mid |-> ""],
       [sep |-> "/", ws |-> "star", mid |-> ":"],
       [sep |-> ".", ws |-> "star", mid |-> ":"],
       [sep |-> "-", ws |-> "star", mid |-> "."],
       [sep |-> "-", ws |-> "star", mid |-> ""] >>

\* position of the hour digits when pattern pat is tried at position k
HourPos(pat, text, k) ==
    IF pat.ws = "none" THEN k + 5 ELSE k + 5 + RunLen(text, k + 5, Whitespace)

\* position of the minute digits
MinutePos(pat, text, k) ==
    IF pat.mid = "" THEN HourPos(pat, text, k) + 2
    ELSE HourPos(pat, text, k) + 3

\* the pattern matches text starting at position k
TimeMatchesAt(pat, text, k) ==
    LET h == HourPos(pat, text, k)
        m == MinutePos(pat, text, k)
    IN  /\ At(text, k) \in Digits
        /\ At(text, k + 1) \in Digits
        /\ At(text, k + 2) = pat.sep
        /\ At(text, k + 3) \in Digits
        /\ At(text, k + 4) \in Digits
        /\ (pat.ws = "plus" => h > k + 5)
        /\ At(text, h) \in Digits
        /\ At(text, h + 1) \in Digits
        /\ (pat.mid # "" => At(text, h + 2) = pat.mid)
        /\ At(text, m) \in Digits
        /\ At(text, m + 1) \in Digits

\* re.search(pattern, text) is not None
TimeSearch(pat, text) == \E k \in 1..Len(text) : TimeMatchesAt(pat, text, k)

\* time_match.groups() of the leftmost match
TimeGroups(pat, text) ==
    LET k == Min({j \in 1..Len(text) : TimeMatchesAt(pat, text, j)})
        h == HourPos(pat, text, k)
        m == MinutePos(pat, text, k)
    IN  [month |-> SubSeq(text, k, k + 1),
         day |-> SubSeq(text, k + 3, k + 4),
         hour |-> SubSeq(text, h, h + 1),
         minute |-> SubSeq(text, m, m + 1)]

\* the range validation of the detector
TimeInRange(g) ==
    /\ 1 <= ToInt(g.month) /\ ToInt(g.month) <= 12
    /\ 1 <= ToInt(g.day) /\ ToInt(g.day) <= 31
    /\ 0 <= ToInt(g.hour) /\ ToInt(g.hour) <= 23
    /\ 0 <= ToInt(g.minute) /\ ToInt(g.minute) <= 59

\* f"{month}-{day} {hour}:{minute}"
DatetimeLabel(month, day, hour, minute) ==
    month \o <<"-">> \o day \o <<" ">> \o hour \o <<":">> \o minute

\* the dictionary appended to time_points; index is 0-based as in the source,
\* pattern is the number of the matching pattern (0 for 'virtual')
TimePoint(i, text, g, pattern) ==
    [index |-> i, text |-> text,
     month |-> g.month, day |-> g.day, hour |-> g.hour, minute |-> g.minute,
     datetime |-> DatetimeLabel(g.month, g.day, g.hour, g.minute),
     pattern |-> pattern]

(***************************************************************************)
(* The numeric patterns.  The numeric group is: one or more digits or      *)
(* commas, an optional ".", any number of digits; it is greedy and, as     *)
(* nothing of the group can be given back to what follows it, the greedy   *)
(* match is the only one at a given start.  The empty sequence stands for  *)
(* "no match" (a group is never empty).                                    *)
(***************************************************************************)
\* last position of the numeric group that starts at s
NumGroupEnd(text, s) ==
    LET e1 == s + RunLen(text, s, DigitOrComma) - 1
    IN  IF At(text, e1 + 1) = "." THEN e1 + 1 + RunLen(text, e1 + 2, Digits)
        ELSE e1

\* start of the group when word (followed by optional whitespace when ws) is at k
AfterWord(word, ws, text, k) ==
    IF ws THEN k + Len(word) + RunLen(text, k + Len(word), Whitespace)
    ELSE k + Len(word)

\* group(1) of re.search of: word, optional whitespace (when ws), numeric group
PrefixGroup(word, ws, text) ==
    LET ks == {k \in 1..Len(text) :
                  /\ WordAt(text, word, k)
                  /\ At(text, AfterWord(word, ws, text, k)) \in DigitOrComma}
    IN  IF ks = {} THEN <<>>
        ELSE LET s == AfterWord(word, ws, text, Min(ks))
             IN  SubSeq(text, s, NumGroupEnd(text, s))

\* group(1) of re.search of: numeric group, optional whitespace, word
SuffixGroup(word, text) ==
    LET ks == {k \in 1..Len(text) :
                  /\ text[k] \in DigitOrComma
                  /\ LET e == NumGroupEnd(text, k)
                     IN  WordAt(text, word,
                                e + 1 + RunLen(text, e + 1, Whitespace))}
    IN  IF ks = {} THEN <<>>
        ELSE SubSeq(text, Min(ks), NumGroupEnd(text, Min(ks)))

\* group(1) of re.search of: word, optional whitespace (when ws), one or more digits
PrefixDigits(word, ws, text) ==
    LET ks == {k \in 1..Len(text) :
                  /\ WordAt(text, word, k)
                  /\ At(text, AfterWord(word, ws, text, k)) \in Digits}
    IN  IF ks = {} THEN <<>>
        ELSE LET s == AfterWord(word, ws, text, Min(ks))
             IN  SubSeq(text, s, s + RunLen(text, s, Digits) - 1)

\* group(1) of the signed-minus pattern
MinusGroup(text) == PrefixGroup(<<"-">>, FALSE, text)

\* group(1) of the balance pattern of the synthetic tier and of the supplement scan
BalanceGroup(text) == PrefixGroup(W_YuE, FALSE, text)

(***************************************************************************)
(* Time anchor detection: the three tiers                                  *)
(***************************************************************************)
\* a variant of TryTimePatterns that does not leave the loop at the first
\* accepted pattern
RECURSIVE TryTimePatternsNoBreak(_, _, _)
TryTimePatternsNoBreak(text, i, p) ==
    IF p > Len(time_patterns) THEN <<>>
    ELSE (IF /\ TimeSearch(time_patterns[p], text)
             /\ TimeInRange(TimeGroups(time_patterns[p], text))
          THEN <<TimePoint(i, text, TimeGroups(time_patterns[p], text), p)>>
          ELSE <<>>)
         \o TryTimePatternsNoBreak(text, i, p + 1)

\* the loop over time_patterns for one fragment, from pattern p on: the first
\* pattern whose leftmost match is in range yields the anchor and ends the loop
RECURSIVE TryTimePatterns(_, _, _)
TryTimePatterns(text, i, p) ==
    IF p > Len(time_patterns) THEN <<>>
    ELSE IF /\ TimeSearch(time_patterns[p], text)
            /\ TimeInRange(TimeGroups(time_patterns[p], text))
         THEN <<TimePoint(i, text, TimeGroups(time_patterns[p], text), p)>>
         ELSE TryTimePatterns(text, i, p + 1)

\* tier 1: the scan of fragments n.. (1-based) of text_blocks
RECURSIVE PatternTierFrom(_, _)
PatternTierFrom(blocks, n) ==
    IF n > Len(blocks) THEN <<>>
    ELSE TryTimePatterns(blocks[n], n - 1, 1) \o PatternTierFrom(blocks, n + 1)

PatternTier(blocks) == PatternTierFrom(blocks, 1)

\* range(max(0, i-r), min(len(text_blocks), i+r+1)) as 1-based positions,
\* for the fragment at 1-based position n
Neighbourhood(blocks, n, r) ==
    {j \in 1..Len(blocks) : n - r <= j /\ j <= n + r}

\* a variant of ContextFallbackTier that takes the first pattern matching a
\* neighbour without the range validation
ContextFallbackTierUnvalidated(blocks) ==
    LET Shaped(j) ==
            {p \in 1..Len(time_patterns) : TimeSearch(time_patterns[p], blocks[j])}
        Hit(n, j) ==
            /\ j \in Neighbourhood(blocks, n, 3)
            /\ j # n
            /\ Shaped(j) # {}
        ns == {n \in 1..Len(blocks) :
                  /\ ContainsAny(blocks[n], TransactionKeywords)
                  /\ \E j \in 1..Len(blocks) : Hit(n, j)}
    IN  IF ns = {} THEN <<>>
        ELSE LET j == Min({jj \in 1..Len(blocks) : Hit(Min(ns), jj)})
                 p == Min(Shaped(j))
             IN  <<TimePoint(j - 1, blocks[j],
                             TimeGroups(time_patterns[p], blocks[j]), p)>>

\* tier 2: the first keyword fragment (in stream order) with a neighbour (in
\* stream order, itself excluded) that has an in-range match yields one anchor
ContextFallbackTier(blocks) ==
    LET Hit(n, j) ==
            /\ j \in Neighbourhood(blocks, n, 3)
            /\ j # n
            /\ TryTimePatterns(blocks[j], j - 1, 1) # <<>>
        ns == {n \in 1..Len(blocks) :
                  /\ ContainsAny(blocks[n], TransactionKeywords)
                  /\ \E j \in 1..Len(blocks) : Hit(n, j)}
    IN  IF ns = {} THEN <<>>
        ELSE LET j == Min({jj \in 1..Len(blocks) : Hit(Min(ns), jj)})
             IN  TryTimePatterns(blocks[j], j - 1, 1)

\* a fragment that the synthetic tier takes as an important transaction
IsImportant(text) ==
    \/ ContainsAny(text, TransactionKeywords)
    \/ MinusGroup(text) # <<>>
    \/ BalanceGroup(text) # <<>>

\* the hour field of the i-th (0-based) virtual time point
VirtualHour(i) == Format02d(i)

\* the virtual time point of the i-th (0-based) important fragment
VirtualTimePoint(i, index, text) ==
    TimePoint(index, text,
              [month |-> <<"0", "6">>, day |-> <<"0", "6">>,
               hour |-> VirtualHour(i), minute |-> <<"0", "0">>], 0)

\* tier 3: fragments n.. of text_blocks, i important fragments seen so far
RECURSIVE SyntheticTierFrom(_, _, _)
SyntheticTierFrom(blocks, n, i) ==
    IF n > Len(blocks) THEN <<>>
    ELSE IF IsImportant(blocks[n])
         THEN <<VirtualTimePoint(i, n - 1, blocks[n])>>
              \o SyntheticTierFrom(blocks, n + 1, i + 1)
         ELSE SyntheticTierFrom(blocks, n + 1, i)

SyntheticTier(blocks) == SyntheticTierFrom(blocks, 1, 0)

(***************************************************************************)
(* Field extraction for one window                                         *)
(***************************************************************************)
\* the transaction dictionary created for a time point
NewTransaction(tp) ==
    [date |-> <<"2", "0", "2", "4", "-">> \o tp.month \o <<"-">> \o tp.day,
     time |-> tp.hour \o <<":">> \o tp.minute,
     datetime |-> tp.datetime,
     title |-> <<>>, sub_title |-> <<>>, amount |-> <<>>, balance |-> <<>>,
     payment_method |-> <<>>, account |-> <<>>]

\* the two skip tests at the head of the per-fragment loop
IsSkippedTimestamp(text) ==
    \/ TimeSearch(time_patterns[1], text)
    \/ TimeSearch(time_patterns[3], text)

\* group(1) of the six amount_patterns, in order
amount_patterns(text) ==
    << MinusGroup(text),
       SuffixGroup(W_Yuan, text),
       SuffixGroup(W_FullwidthYen, text),
       SuffixGroup(W_Yen, text),
       PrefixGroup(W_ZhiChu, TRUE, text),
       PrefixGroup(W_KouKuan, TRUE, text) >>

\* group(1) of the four income_patterns, in order
income_patterns(text) ==
    << PrefixGroup(<<"+">>, FALSE, text),
       PrefixGroup(W_ShouRu, TRUE, text),
       PrefixGroup(W_ShouKuan, TRUE, text),
       PrefixGroup(W_TuiKuan, TRUE, text) >>

\* group(1) of the four balance_patterns, in order
balance_patterns(text) ==
    << PrefixGroup(W_YuE, FALSE, text),
       PrefixGroup(W_YuE, TRUE, text),
       PrefixGroup(W_ZhangHuYuE, FALSE, text),
       PrefixGroup(W_DangQianYuE, FALSE, text) >>

\* group(1) of the four account_patterns, in order
account_patterns(text) ==
    << PrefixDigits(W_ChuXuKa, FALSE, text),
       PrefixDigits(W_ChuXuKa, TRUE, text),
       PrefixDigits(W_YinHangKa, FALSE, text),
       PrefixDigits(W_XinYongKa, FALSE, text) >>

\* the outflow rule accepts the group of a matching pattern
OutflowAccepts(g) ==
    /\ g # <<>>
    /\ Len(g) > 2
    /\ FloatParses(StripCommas(g))
    /\ FloatPositive(StripCommas(g))

\* the inflow and balance rules accept the group of a matching pattern
PositiveAccepts(g) ==
    /\ g # <<>>
    /\ FloatParses(StripCommas(g))
    /\ FloatPositive(StripCommas(g))

\* a variant of OutflowAmount that keeps the commas of the group
OutflowAmountWithCommas(text) ==
    LET gs == amount_patterns(text)
        ps == {p \in 1..Len(gs) : OutflowAccepts(gs[p])}
    IN  IF ps = {} THEN <<>> ELSE <<"-">> \o gs[Min(ps)]

\* the outflow amount found in text: "-" and the group of the first accepted
\* pattern, commas removed; empty when no pattern is accepted
OutflowAmount(text) ==
    LET gs == amount_patterns(text)
        ps == {p \in 1..Len(gs) : OutflowAccepts(gs[p])}
    IN  IF ps = {} THEN <<>> ELSE <<"-">> \o StripCommas(gs[Min(ps)])

\* the inflow amount found in text
InflowAmount(text) ==
    LET gs == income_patterns(text)
        ps == {p \in 1..Len(gs) : PositiveAccepts(gs[p])}
    IN  IF ps = {} THEN <<>> ELSE <<"+">> \o StripCommas(gs[Min(ps)])

\* the balance found in text
BalanceValue(text) ==
    LET gs == balance_patterns(text)
        ps == {p \in 1..Len(gs) : PositiveAccepts(gs[p])}
    IN  IF ps = {} THEN <<>> ELSE StripCommas(gs[Min(ps)])

\* the account found in text
AccountValue(text) ==
    LET gs == account_patterns(text)
        ps == {p \in 1..Len(gs) : gs[p] # <<>>}
    IN  IF ps = {} THEN <<>> ELSE W_ChuXuKa \o gs[Min(ps)]

\* re.match of the numeric / punctuation class over the whole text
IsNumericPunct(text) ==
    /\ Len(text) > 0
    /\ \A k \in 1..Len(text) : text[k] \in NumericPunct

\* a variant of IsTitleText that asks for more than 8 characters
IsTitleTextLong(text) == Len(text) > 8 /\ ~IsNumericPunct(text)

\* the text can serve as a title or sub-title
IsTitleText(text) == Len(text) > 2 /\ ~IsNumericPunct(text)

\* one iteration of the per-fragment loop
ExtractFragment(tr, text) ==
    IF IsSkippedTimestamp(text) THEN tr
    ELSE LET out == IF tr.amount = <<>> THEN OutflowAmount(text) ELSE tr.amount
             amt == IF out = <<>> THEN InflowAmount(text) ELSE out
             bal == BalanceValue(text)
             acc == AccountValue(text)
         IN  [tr EXCEPT
                !.amount = amt,
                !.balance = IF bal # <<>> THEN bal ELSE @,
                !.payment_method =
                    IF ContainsAny(text, PaymentMethods) THEN text ELSE @,
                !.account = IF acc # <<>> THEN acc ELSE @,
                !.title = IF @ = <<>> /\ IsTitleText(text) THEN text ELSE @,
                !.sub_title =
                    IF tr.title # <<>> /\ @ = <<>> /\ IsTitleText(text)
                    THEN text ELSE @]

\* the per-fragment loop over relevant_texts
RECURSIVE ExtractLoop(_, _)
ExtractLoop(tr, texts) ==
    IF texts = <<>> THEN tr
    ELSE ExtractLoop(ExtractFragment(tr, Head(texts)), Tail(texts))

\* Python: text.split('-')[1], for a text that holds a "-"
SecondPart(text) ==
    LET first == Min({k \in 1..Len(text) : text[k] = "-"})
        rest == SubSeq(text, first + 1, Len(text))
        later == {k \in 1..Len(rest) : rest[k] = "-"}
    IN  IF later = {} THEN rest ELSE SubSeq(rest, 1, Min(later) - 1)

\* the title taken from the payment method when the loop found none
TitleFromPayment(tr) ==
    IF /\ tr.title = <<>>
       /\ tr.payment_method # <<>>
       /\ \/ Contains(tr.payment_method, W_WeiXinZhiFu)
          \/ Contains(tr.payment_method, W_ZhiFuBao)
       /\ \E k \in 1..Len(tr.payment_method) : tr.payment_method[k] = "-"
    THEN [tr EXCEPT !.title = SecondPart(tr.payment_method)]
    ELSE tr

\* a fragment of the window that the back-fill takes as sub-title
IsBackfillSubTitle(tr, text) ==
    /\ text # tr.title
    /\ text # tr.payment_method
    /\ text # tr.account
    /\ IsTitleText(text)
    /\ ~IsSkippedTimestamp(text)
    /\ ContainsAny(text, SubTitleKeywords)

\* the sub-title back-fill
SubTitleBackfill(tr, texts) ==
    LET ks == {k \in 1..Len(texts) : IsBackfillSubTitle(tr, texts[k])}
    IN  IF tr.sub_title = <<>> /\ ks # {}
        THEN [tr EXCEPT !.sub_title = texts[Min(ks)]]
        ELSE tr

\* the record built for a window
ExtractWindow(tp, texts) ==
    SubTitleBackfill(TitleFromPayment(ExtractLoop(NewTransaction(tp), texts)),
                     texts)

\* a variant of KeepRecord that keeps every record
KeepRecordAlways(tr) == TRUE

\* the keep rule: a record joins the list only with a title
KeepRecord(tr) == tr.title # <<>>

\* text_blocks[start:end] with 0-based start, exclusive end
Slice(blocks, start, end) == SubSeq(blocks, start + 1, end)

\* start_idx of the window of the i-th (1-based) time point
WindowStart(tps, i) == tps[i].index

\* a variant of WindowEnd that runs every window to the end of the stream
WindowEndAtStreamEnd(tps, i, n) == n

\* end_idx of the window of the i-th (1-based) time point
WindowEnd(tps, i, n) == IF i + 1 <= Len(tps) THEN tps[i + 1].index ELSE n

(***************************************************************************)
(* _supplement_missing_transactions                                        *)
(***************************************************************************)
\* the shape tests that keep a timestamp from being read as an amount
LooksLikeTime(amount) ==
    \/ AllDigitsOfLen(amount, 2)
    \/ AllDigitsOfLen(amount, 4)
    \/ IsMMDDdotHH(amount)
    \/ IsMMDDcolonHH(amount)

\* the amount test of the supplement scans, on the group with commas removed
SupplementAmountAccepts(amount) ==
    /\ FloatParses(amount)
    /\ FloatPositive(amount)
    /\ FloatBelowMillion(amount)
    /\ ~LooksLikeTime(amount)

\* the record that pass 1 creates for a keyword fragment
SupplementTransaction(text) ==
    [date |-> <<"2", "0", "2", "4", "-", "0", "7", "-", "3", "0">>,
     time |-> <<"0", "0", ":", "0", "0">>,
     datetime |-> <<"0", "7", "-", "3", "0", " ", "0", "0", ":", "0", "0">>,
     title |-> text, sub_title |-> <<>>, amount |-> <<>>, balance |-> <<>>,
     payment_method |-> <<>>, account |-> <<>>]

\* one iteration of the neighbourhood loop of pass 1
SupplementFragment(tr, nearby_text) ==
    LET amount == StripCommas(MinusGroup(nearby_text))
        balance == StripCommas(BalanceGroup(nearby_text))
        account == PrefixDigits(W_ChuXuKa, FALSE, nearby_text)
    IN  [tr EXCEPT
           !.amount =
               IF MinusGroup(nearby_text) # <<>> /\ SupplementAmountAccepts(amount)
               THEN <<"-">> \o amount ELSE @,
           !.balance =
               IF /\ BalanceGroup(nearby_text) # <<>>
                  /\ FloatParses(balance) /\ FloatPositive(balance)
               THEN balance ELSE @,
           !.account = IF account # <<>> THEN W_ChuXuKa \o account ELSE @,
           !.payment_method =
               IF ContainsAny(nearby_text, SupplementPaymentMethods)
               THEN nearby_text ELSE @]

\* the neighbourhood loop of pass 1
RECURSIVE SupplementLoop(_, _)
SupplementLoop(tr, texts) ==
    IF texts = <<>> THEN tr
    ELSE SupplementLoop(SupplementFragment(tr, Head(texts)), Tail(texts))

\* text_blocks[max(0, i-r) : min(len(text_blocks), i+r+1)] around 1-based n
NearbyTexts(blocks, n, r) ==
    SubSeq(blocks,
           IF n - r < 1 THEN 1 ELSE n - r,
           IF n + r > Len(blocks) THEN Len(blocks) ELSE n + r)

\* pass 1 appends the record only with an amount or a balance
SupplementKeeps(tr) == tr.amount # <<>> \/ tr.balance # <<>>

\* the records pass 1 adds for fragments n.. ; titles is identified_titles
RECURSIVE SupplementPass1From(_, _, _)
SupplementPass1From(blocks, titles, n) ==
    IF n > Len(blocks) THEN <<>>
    ELSE LET text == blocks[n]
             tr == SupplementLoop(SupplementTransaction(text),
                                  NearbyTexts(blocks, n, 3))
         IN  (IF /\ ContainsAny(text, MissingKeywords)
                 /\ text \notin titles
                 /\ SupplementKeeps(tr)
              THEN <<tr>> ELSE <<>>)
             \o SupplementPass1From(blocks, titles, n + 1)

\* pass 1 with the new records put in front of the existing ones
SupplementPass1Prepending(blocks, existing) ==
    SupplementPass1From(blocks, {existing[k].title : k \in 1..Len(existing)}, 1)
    \o existing

\* pass 1: existing_transactions after the missed-transaction loop
SupplementPass1(blocks, existing) ==
    existing \o
    SupplementPass1From(blocks, {existing[k].title : k \in 1..Len(existing)}, 1)

InsuranceDatetime == <<"0", "4", "-", "3", "0", " ", "0", "9", ":", "4", "0">>
InsuranceAmount == <<"-", "3", "0", ".", "0", "7">>

\* the record that pass 2 creates
FirstTransaction ==
    [date |-> <<"2", "0", "2", "4", "-", "0", "4", "-", "3", "0">>,
     time |-> <<"0", "9", ":", "4", "0">>,
     datetime |-> InsuranceDatetime,
     title |-> W_RenShenBaoXianFei, sub_title |-> <<>>, amount |-> <<>>,
     balance |-> <<>>, payment_method |-> <<>>, account |-> <<>>]

\* first_transaction_found before pass 2
FirstTransactionFound(existing) ==
    \E k \in 1..Len(existing) :
        /\ existing[k].title = W_RenShenBaoXianFei
        /\ existing[k].datetime = InsuranceDatetime
        /\ existing[k].amount = InsuranceAmount

\* the balance, account and sub-title part of one iteration of pass 2
FirstRest(tr, nearby_text) ==
    LET balance == StripCommas(BalanceGroup(nearby_text))
        account == PrefixDigits(W_ChuXuKa, FALSE, nearby_text)
    IN  [tr EXCEPT
           !.balance =
               IF /\ BalanceGroup(nearby_text) # <<>>
                  /\ FloatParses(balance) /\ FloatPositive(balance)
               THEN balance ELSE @,
           !.account = IF account # <<>> THEN W_ChuXuKa \o account ELSE @,
           !.sub_title =
               IF /\ Contains(nearby_text, W_BaoXian)
                  /\ Contains(nearby_text, W_ChuXuKa)
               THEN nearby_text ELSE @]

\* the neighbourhood loop of pass 2: the target amount ends the loop at once,
\* another acceptable amount is taken only while no amount is set
RECURSIVE FirstLoop(_, _)
FirstLoop(tr, texts) ==
    IF texts = <<>> THEN tr
    ELSE LET nearby_text == Head(texts)
             amount == StripCommas(MinusGroup(nearby_text))
             parsed == MinusGroup(nearby_text) # <<>> /\ FloatParses(amount)
         IN  IF parsed /\ amount = <<"3", "0", ".", "0", "7">>
             THEN [tr EXCEPT !.amount = <<"-">> \o amount]
             ELSE LET withAmount ==
                          IF /\ parsed
                             /\ SupplementAmountAccepts(amount)
                             /\ tr.amount = <<>>
                          THEN [tr EXCEPT !.amount = <<"-">> \o amount]
                          ELSE tr
                  IN  FirstLoop(FirstRest(withAmount, nearby_text), Tail(texts))

\* pass 2 appends the record only with an amount and a balance
FirstKeeps(tr) == tr.amount # <<>> /\ tr.balance # <<>>

\* the record pass 2 builds around the fragment at 1-based position n
FirstCandidate(blocks, n) ==
    FirstLoop(FirstTransaction, NearbyTexts(blocks, n, 2))

\* pass 2: existing_transactions after the first-record recovery
SupplementPass2(blocks, existing) ==
    LET ns == {n \in 1..Len(blocks) :
                  /\ Contains(blocks[n], W_RenShenBaoXianFei)
                  /\ FirstKeeps(FirstCandidate(blocks, n))}
    IN  IF ~FirstTransactionFound(existing) /\ ns # {}
        THEN Append(existing, FirstCandidate(blocks, Min(ns)))
        ELSE existing

(***************************************************************************)
(* Deduplication and reconciliation                                        *)
(***************************************************************************)
\* f"{title}_{datetime}_{amount}"
DedupKey(tr) == tr.title \o <<"_">> \o tr.datetime \o <<"_">> \o tr.amount

\* the record is one of the designated insurance-premium pair
IsInsurancePair(tr) ==
    tr.title = W_RenShenBaoXianFei /\ tr.datetime = InsuranceDatetime

\* a variant of NewSeenKeys that keeps the keys of an earlier run
NewSeenKeysCarriedOver(old) == old

\* seen_keys = set() at the head of the deduplication; old is what the name
\* was bound to before
NewSeenKeys(old) == {}

\* a variant of DedupKeeps that never consults seen_keys outside the pair
DedupKeepsIgnoringSeen(tr, seen) ==
    IF IsInsurancePair(tr)
    THEN tr.amount = InsuranceAmount /\ DedupKey(tr) \notin seen
    ELSE TRUE

\* a variant of DedupKeeps without the insurance-premium rule
DedupKeepsWithoutPairRule(tr, seen) == DedupKey(tr) \notin seen

\* the loop body decides to append the record, seen being seen_keys
DedupKeeps(tr, seen) ==
    IF IsInsurancePair(tr)
    THEN tr.amount = InsuranceAmount /\ DedupKey(tr) \notin seen
    ELSE DedupKey(tr) \notin seen

(***************************************************************************)
(* Fragments and streams the model is run on                               *)
(***************************************************************************)
F_TimeSpace == <<"0", "7", "-", "3", "0", " ", "1", "5", ":", "3", "6">>
F_TimeJoined == <<"0", "4", "-", "3", "0", "0", "9", ":", "4", "0">>
F_TimeDot == <<"0", "7", "-", "2", "9", "1", "5", ".", "2", "6">>
F_TimeBad == <<"1", "3", "-", "4", "5", "1", "5", ":", "3", "6">>
\* the third pattern matches out of range, the sixth in range
F_TimeTwoShapes ==
    <<"1", "3", "-", "0", "1", "0", "7", ".", "3", "0", "1", "5", ":", "3", "6">>
F_Insurance == W_RenShenBaoXianFei
F_Transfer == W_ZhuanZhang
F_CarLoan ==
    <<"huan", "che", "dai", "lparen", "han", "zhi4", "neng", "huan", "dai",
      "rparen">>
F_Amount3007 == <<"-", "3", "0", ".", "0", "7">>
F_Amount4500 == <<"-", "4", "5", ".", "0", "0">>
F_Amount2000 == <<"-", "2", "0", "0", "0", ".", "0", "0">>
F_Balance == <<"yu", "e", "8", "8", "8", "8", ".", "8", "8">>
F_Account == <<"chu", "xu", "ka", "6", "8", "4", "2">>
F_WeChat == <<"wei", "xin", "zhi1", "fu", "-", "xing", "ba", "ke">>

\* Scenario A of the specification
ScenarioA == <<F_TimeSpace, F_CarLoan, F_Amount2000, F_Balance, F_Account>>

MaxLen == 3
MaxRepeat == 25
MaxInsuranceLen == 4
MaxCandidates == 4

Fragments ==
    {F_TimeSpace, F_TimeJoined, F_TimeDot, F_TimeBad, F_TimeTwoShapes,
     F_Insurance, F_Transfer, F_Amount3007, F_Balance, F_Account, F_WeChat}

\* fragments repeated to make long streams without a timestamp
RepeatedFragments == {W_HuanCheDai, F_Amount4500}

InsuranceFragments ==
    {F_TimeJoined, F_Insurance, F_Amount3007, F_Amount4500, F_Balance}

\* all streams of 1..n fragments of set S
StreamsOver(S, n) == UNION {[1..k -> S] : k \in 1..n}

Streams ==
    StreamsOver(Fragments, MaxLen)
    \cup {ScenarioA}
    \cup {[k \in 1..n |-> f] : n \in (MaxLen + 1)..MaxRepeat, f \in RepeatedFragments}

InsuranceStreams == StreamsOver(InsuranceFragments, MaxInsuranceLen)

\* candidate records for the deduplication loop taken on its own: the
\* insurance-premium pair with the designated amount (as pass 2 and as a window
\* produce it) and with another amount, and records outside the pair
R_Pair3007 ==
    [FirstTransaction EXCEPT !.amount = InsuranceAmount,
                             !.balance = <<"8", "8", "8", "8", ".", "8", "8">>]
R_Pair3007Window == [FirstTransaction EXCEPT !.amount = InsuranceAmount]
R_Pair4500 ==
    [FirstTransaction EXCEPT !.amount = F_Amount4500,
                             !.balance = <<"8", "8", "8", "8", ".", "8", "8">>]
R_InsuranceOther ==
    [SupplementTransaction(F_Insurance) EXCEPT !.amount = InsuranceAmount]
R_Transfer == [SupplementTransaction(F_Transfer) EXCEPT !.amount = F_Amount4500]
R_TransferBalance ==
    [SupplementTransaction(F_Transfer) EXCEPT
        !.amount = F_Amount4500,
        !.balance = <<"8", "8", "8", "8", ".", "8", "8">>]

CandidateRecords ==
    {R_Pair3007, R_Pair3007Window, R_Pair4500, R_InsuranceOther, R_Transfer,
     R_TransferBalance}

CandidateLists == {<<>>} \cup StreamsOver(CandidateRecords, MaxCandidates)

(***************************************************************************)
(* The state machine of extract_transactions_from_text                     *)
(***************************************************************************)
VARIABLES
    text_blocks,          \* the argument
    pc,                   \* the place of control in the function
    time_points,          \* the anchor list
    tier,                 \* the tier that filled time_points (0: none yet)
    i,                    \* 0-based index of the time point the window loop is at
    windows,              \* <<start_idx, end_idx>> of the windows processed so far
    transactions,         \* the record list
    candidates,           \* the list the deduplication loop iterated over
    d,                    \* 0-based index of the record the dedup loop is at
    cleaned_transactions, \* the list built by the dedup loop
    seen_keys,            \* the keys seen by the dedup loop
    round,                \* 1, or 2 when deduplication is run on its own output
    first_output,         \* the output of round 1 during round 2
    matches,              \* classify_transaction_type: the list of scored rules
    calls,                \* the calls of classify_transaction_type made so far
    enhanced_transactions, \* process_image: the list it returns
    image_files,          \* batch_process: what each image of the directory holds
    image_index,          \* batch_process: 0-based index of the image the loop is at
    all_transactions,     \* batch_process: the accumulated records
    successful_images,    \* batch_process: counter
    failed_images,        \* batch_process: counter
    outputs,              \* what process_image returned (or raised) for each image
    success,              \* run: "True" or "False" as it returns, "none" before
    exit_status,          \* the exit status of the process (-1 while it runs)
    quality_report,       \* the last value of _generate_quality_report
    EASYOCR_AVAILABLE,    \* module flag
    OPENPYXL_AVAILABLE,   \* module flag
    input_dir_exists      \* os.path.exists(input_dir)

\* the variables of extract_transactions_from_text
extractVars ==
    <<text_blocks, pc, time_points, tier, i, windows, transactions, candidates,
      d, cleaned_transactions, seen_keys, round, first_output>>

\* the variables of the functions around it
outerVars ==
    <<matches, calls, enhanced_transactions, image_files, image_index,
      all_transactions, successful_images, failed_images, outputs, success,
      exit_status, quality_report, EASYOCR_AVAILABLE, OPENPYXL_AVAILABLE,
      input_dir_exists>>

vars == <<extractVars, outerVars>>

\* the functions around extract_transactions_from_text have not run
InitOuter ==
    /\ matches = <<>>
    /\ calls = <<>>
    /\ enhanced_transactions = <<>>
    /\ image_files = <<>>
    /\ image_index = 0
    /\ all_transactions = <<>>
    /\ successful_images = 0
    /\ failed_images = 0
    /\ outputs = <<>>
    /\ success = "none"
    /\ exit_status = -1
    /\ quality_report = <<>>
    /\ EASYOCR_AVAILABLE = TRUE
    /\ OPENPYXL_AVAILABLE = TRUE
    /\ input_dir_exists = TRUE

InitWith(blocks) ==
    /\ text_blocks = blocks
    /\ pc = "pattern"
    /\ time_points = <<>>
    /\ tier = 0
    /\ i = 0
    /\ windows = <<>>
    /\ transactions = <<>>
    /\ candidates = <<>>
    /\ d = 0
    /\ cleaned_transactions = <<>>
    /\ seen_keys = {}
    /\ round = 1
    /\ first_output = <<>>
    /\ InitOuter

Init == \E blocks \in Streams : InitWith(blocks)

\* a variant of DetectPattern that goes on to tier 2 whatever tier 1 found
DetectPatternFallsThrough ==
    /\ pc = "pattern"
    /\ time_points' = PatternTier(text_blocks)
    /\ tier' = IF time_points' # <<>> THEN 1 ELSE 0
    /\ pc' = "context"
    /\ UNCHANGED <<text_blocks, i, windows, transactions, candidates, d,
                   cleaned_transactions, seen_keys, round, first_output>>
    /\ UNCHANGED outerVars

\* tier 1
DetectPattern ==
    /\ pc = "pattern"
    /\ time_points' = PatternTier(text_blocks)
    /\ tier' = IF time_points' # <<>> THEN 1 ELSE 0
    /\ pc' = IF time_points' # <<>> THEN "windows" ELSE "context"
    /\ UNCHANGED <<text_blocks, i, windows, transactions, candidates, d,
                   cleaned_transactions, seen_keys, round, first_output>>
    /\ UNCHANGED outerVars

\* tier 2, entered with an empty time_points
DetectContext ==
    /\ pc = "context"
    /\ time_points' = ContextFallbackTier(text_blocks)
    /\ tier' = IF time_points' # <<>> THEN 2 ELSE 0
    /\ pc' = IF time_points' # <<>> THEN "windows" ELSE "synthetic"
    /\ UNCHANGED <<text_blocks, i, windows, transactions, candidates, d,
                   cleaned_transactions, seen_keys, round, first_output>>
    /\ UNCHANGED outerVars

\* tier 3, entered with an empty time_points
DetectSynthetic ==
    /\ pc = "synthetic"
    /\ time_points' = SyntheticTier(text_blocks)
    /\ tier' = IF time_points' # <<>> THEN 3 ELSE 0
    /\ pc' = "windows"
    /\ UNCHANGED <<text_blocks, i, windows, transactions, candidates, d,
                   cleaned_transactions, seen_keys, round, first_output>>
    /\ UNCHANGED outerVars

\* one iteration of the loop over time_points
ProcessWindow ==
    /\ pc = "windows"
    /\ i < Len(time_points)
    /\ LET start_idx == WindowStart(time_points, i + 1)
           end_idx == WindowEnd(time_points, i + 1, Len(text_blocks))
           transaction == ExtractWindow(time_points[i + 1],
                                        Slice(text_blocks, start_idx, end_idx))
       IN  /\ windows' = Append(windows, <<start_idx, end_idx>>)
           /\ transactions' = IF KeepRecord(transaction)
                              THEN Append(transactions, transaction)
                              ELSE transactions
    /\ i' = i + 1
    /\ UNCHANGED <<text_blocks, pc, time_points, tier, candidates, d,
                   cleaned_transactions, seen_keys, round, first_output>>
    /\ UNCHANGED outerVars

\* the loop over time_points ends; pass 1 of the supplement scan
SupplementMissed ==
    /\ pc = "windows"
    /\ i = Len(time_points)
    /\ transactions' = SupplementPass1(text_blocks, transactions)
    /\ pc' = "first_record"
    /\ UNCHANGED <<text_blocks, time_points, tier, i, windows, candidates, d,
                   cleaned_transactions, seen_keys, round, first_output>>
    /\ UNCHANGED outerVars

\* pass 2 of the supplement scan; the function returns to the dedup loop
SupplementFirstRecord ==
    /\ pc = "first_record"
    /\ transactions' = SupplementPass2(text_blocks, transactions)
    /\ pc' = "clean"
    /\ UNCHANGED <<text_blocks, time_points, tier, i, windows, candidates, d,
                   cleaned_transactions, seen_keys, round, first_output>>
    /\ UNCHANGED outerVars

\* cleaned_transactions = [] and seen_keys = set() before the dedup loop
DedupStart ==
    /\ pc = "clean"
    /\ cleaned_transactions' = <<>>
    /\ seen_keys' = NewSeenKeys(seen_keys)
    /\ d' = 0
    /\ pc' = "dedup"
    /\ UNCHANGED <<text_blocks, time_points, tier, i, windows, transactions,
                   candidates, round, first_output>>
    /\ UNCHANGED outerVars

\* one iteration of the dedup loop
DedupStep ==
    /\ pc = "dedup"
    /\ d < Len(transactions)
    /\ LET transaction == transactions[d + 1]
       IN  IF DedupKeeps(transaction, seen_keys)
           THEN /\ cleaned_transactions' = Append(cleaned_transactions, transaction)
                /\ seen_keys' = seen_keys \cup {DedupKey(transaction)}
           ELSE UNCHANGED <<cleaned_transactions, seen_keys>>
    /\ d' = d + 1
    /\ UNCHANGED <<text_blocks, pc, time_points, tier, i, windows, transactions,
                   candidates, round, first_output>>
    /\ UNCHANGED outerVars

\* the dedup loop ends: transactions = cleaned_transactions, and return
DedupFinish ==
    /\ pc = "dedup"
    /\ d = Len(transactions)
    /\ candidates' = transactions
    /\ transactions' = cleaned_transactions
    /\ pc' = "done"
    /\ UNCHANGED <<text_blocks, time_points, tier, i, windows, d,
                   cleaned_transactions, seen_keys, round, first_output>>
    /\ UNCHANGED outerVars

Next ==
    \/ DetectPattern
    \/ DetectContext
    \/ DetectSynthetic
    \/ ProcessWindow
    \/ SupplementMissed
    \/ SupplementFirstRecord
    \/ DedupStart
    \/ DedupStep
    \/ DedupFinish

Spec == Init /\ [][Next]_vars

\* the same function on streams around the insurance-premium fragment
InitInsurance == \E blocks \in InsuranceStreams : InitWith(blocks)

SpecInsurance == InitInsurance /\ [][Next]_vars

(***************************************************************************)
(* The deduplication loop on arbitrary candidate lists, run a second time  *)
(* on its own output                                                       *)
(***************************************************************************)
InitDedup ==
    /\ text_blocks = <<>>
    /\ pc = "clean"
    /\ time_points = <<>>
    /\ tier = 0
    /\ i = 0
    /\ windows = <<>>
    /\ transactions \in CandidateLists
    /\ candidates = <<>>
    /\ d = 0
    /\ cleaned_transactions = <<>>
    /\ seen_keys = {}
    /\ round = 1
    /\ first_output = <<>>
    /\ InitOuter

\* the returned list is handed to the deduplication again
DedupAgain ==
    /\ pc = "done"
    /\ round = 1
    /\ first_output' = transactions
    /\ round' = 2
    /\ pc' = "clean"
    /\ UNCHANGED <<text_blocks, time_points, tier, i, windows, transactions,
                   candidates, d, cleaned_transactions, seen_keys>>
    /\ UNCHANGED outerVars

NextDedup ==
    \/ DedupStart
    \/ DedupStep
    \/ DedupFinish
    \/ DedupAgain

SpecDedup == InitDedup /\ [][NextDedup]_vars

(***************************************************************************)
(* Properties                                                              *)
(***************************************************************************)
\* the function has returned: transactions is the returned list
Returned == pc = "done"

\* C1: on the five fragments of Scenario A the function returns exactly one
\* record, with datetime "07-30 15:36", the loan-repayment title, amount
\* "-2000.00", balance "8888.88" and account savings-card 6842.
C1_ScenarioAOneRecord ==
    (Returned /\ text_blocks = ScenarioA) =>
        /\ Len(transactions) = 1
        /\ transactions[1].datetime = F_TimeSpace
        /\ transactions[1].title = F_CarLoan
        /\ transactions[1].amount = F_Amount2000
        /\ transactions[1].balance = <<"8", "8", "8", "8", ".", "8", "8">>
        /\ transactions[1].account = F_Account

\* position k of candidates holds the first occurrence of its key
FirstOccurrence(k) ==
    \A j \in 1..(k - 1) : DedupKey(candidates[j]) # DedupKey(candidates[k])

NotInsurancePair(tr) == ~IsInsurancePair(tr)

\* the records outside the pair at the first occurrence of their key, from
\* position k of candidates on
RECURSIVE FirstOccurrencesFrom(_)
FirstOccurrencesFrom(k) ==
    IF k > Len(candidates) THEN <<>>
    ELSE (IF NotInsurancePair(candidates[k]) /\ FirstOccurrence(k)
          THEN <<candidates[k]>> ELSE <<>>)
         \o FirstOccurrencesFrom(k + 1)

\* C2: the deduplication returns, in input order, the first occurrence of each
\* key title_datetime_amount (the insurance-premium pair left aside): no two
\* returned records share a key, every input key outside the pair is returned,
\* and the returned records outside the pair are exactly the first occurrences
\* in their input order.
C2_DedupFirstOccurrences ==
    Returned =>
        /\ \A a, b \in 1..Len(transactions) :
               a # b => DedupKey(transactions[a]) # DedupKey(transactions[b])
        /\ \A k \in 1..Len(candidates) :
               NotInsurancePair(candidates[k]) =>
                   \E j \in 1..Len(transactions) :
                       DedupKey(transactions[j]) = DedupKey(candidates[k])
        /\ SelectSeq(transactions, NotInsurancePair) = FirstOccurrencesFrom(1)

\* a stream whose candidates hold a duplicate key outside the pair, one of
\* which the deduplication has removed
C2_Witness ==
    /\ Returned
    /\ text_blocks # <<>>
    /\ Len(transactions) >= 1
    /\ \E j, k \in 1..Len(candidates) :
           /\ j < k
           /\ NotInsurancePair(candidates[k])
           /\ DedupKey(candidates[j]) = DedupKey(candidates[k])

\* C3: the deduplication is idempotent: run on its own output it returns the
\* same records in the same order.
C3_DedupIdempotent ==
    (Returned /\ round = 2) => transactions = first_output

\* the second run has returned, on a first output of several records, one of
\* them of the insurance-premium pair
C3_Witness ==
    /\ Returned
    /\ round = 2
    /\ Len(first_output) >= 2
    /\ \E k \in 1..Len(first_output) : IsInsurancePair(first_output[k])

\* C4: of the records with the insurance-premium title and datetime
\* "04-30 09:40" the deduplication returns only records with amount "-30.07",
\* at most one, whatever the position of the other variants in the input.
C4_InsurancePairRule ==
    Returned =>
        /\ \A k \in 1..Len(transactions) :
               IsInsurancePair(transactions[k]) =>
                   transactions[k].amount = InsuranceAmount
        /\ Len(SelectSeq(transactions, IsInsurancePair)) <= 1
        /\ (\E k \in 1..Len(candidates) :
                IsInsurancePair(candidates[k])
                /\ candidates[k].amount = InsuranceAmount)
           => Len(SelectSeq(transactions, IsInsurancePair)) = 1

\* the input held another variant of the pair before the "-30.07" variant, and
\* the "-30.07" variant is returned
C4_Witness ==
    /\ Returned
    /\ \E j, k \in 1..Len(candidates) :
           /\ j < k
           /\ IsInsurancePair(candidates[j])
           /\ candidates[j].amount # InsuranceAmount
           /\ IsInsurancePair(candidates[k])
           /\ candidates[k].amount = InsuranceAmount
    /\ \E k \in 1..Len(transactions) : IsInsurancePair(transactions[k])

\* the time point whose window holds the fragment at 1-based position n
\* (the last time point at or before it); 0 when there is none
AnchorOf(n) ==
    LET ks == {k \in 1..Len(time_points) : time_points[k].index <= n - 1}
    IN  IF ks = {} THEN 0 ELSE CHOOSE k \in ks : \A j \in ks : j <= k

\* the stream holds the insurance-premium fragment, anchored at "04-30 09:40",
\* with "-30.07" and "-45.00" both within two fragments of it
ScenarioC ==
    \E n \in 1..Len(text_blocks) :
        /\ text_blocks[n] = F_Insurance
        /\ AnchorOf(n) # 0
        /\ time_points[AnchorOf(n)].datetime = InsuranceDatetime
        /\ \E a, b \in Neighbourhood(text_blocks, n, 2) :
               text_blocks[a] = F_Amount3007 /\ text_blocks[b] = F_Amount4500

\* C5: when the insurance-premium fragment anchored at "04-30 09:40" has the
\* amounts "-30.07" and "-45.00" in its neighbourhood, in either order, the
\* returned list holds exactly one record of the pair, with amount "-30.07".
C5_ScenarioCKeepsTarget ==
    (Returned /\ ScenarioC) =>
        /\ Len(SelectSeq(transactions, IsInsurancePair)) = 1
        /\ SelectSeq(transactions, IsInsurancePair)[1].amount = InsuranceAmount

\* no fragment of the stream has the shape of a timestamp
NoTimestampShape ==
    \A n \in 1..Len(text_blocks) :
        \A p \in 1..Len(time_patterns) :
            ~TimeSearch(time_patterns[p], text_blocks[n])

\* exactly one fragment of the stream holds a transaction keyword
OneKeywordFragment ==
    Cardinality({n \in 1..Len(text_blocks) :
                    ContainsAny(text_blocks[n], TransactionKeywords)}) = 1

PlaceholderDates ==
    {<<"2", "0", "2", "4", "-", "0", "6", "-", "0", "6">>,
     <<"2", "0", "2", "4", "-", "0", "7", "-", "3", "0">>}

\* C6: a stream without a timestamp-shaped fragment in which one fragment
\* holds a transaction keyword yields exactly one record, with a placeholder
\* date (06-06 of the synthetic tier or 07-30 of the supplement scan).
C6_ScenarioDOneRecord ==
    (Returned /\ NoTimestampShape /\ OneKeywordFragment) =>
        /\ Len(transactions) = 1
        /\ transactions[1].date \in PlaceholderDates

\* C7: every record of the list, at every point of the function and in the
\* returned list, has a non-empty title; a window whose extraction leaves the
\* title empty adds no record.
C7_TitleNonEmpty ==
    /\ \A k \in 1..Len(transactions) : transactions[k].title # <<>>
    /\ \A k \in 1..Len(cleaned_transactions) :
           cleaned_transactions[k].title # <<>>

\* the function has returned a record and one window at least added none
C7_Witness ==
    /\ Returned
    /\ Len(transactions) >= 1
    /\ Len(windows) > Len(candidates)

\* the label has the form MM-DD HH:MM
IsDatetimeLabel(s) ==
    /\ Len(s) = 11
    /\ \A k \in {1, 2, 4, 5, 7, 8, 10, 11} : s[k] \in Digits
    /\ s[3] = "-" /\ s[6] = " " /\ s[9] = ":"

\* C8: every time point of every tier has month 1..12, day 1..31, hour 0..23,
\* minute 0..59 and a label MM-DD HH:MM, for any number of time points.
C8_AnchorsInRange ==
    \A k \in 1..Len(time_points) :
        /\ TimeInRange(time_points[k])
        /\ IsDatetimeLabel(time_points[k].datetime)

\* some pattern's match in the text, as re.search returns it, is in range
HasRangeValidMatch(text) ==
    \E p \in 1..Len(time_patterns) :
        /\ TimeSearch(time_patterns[p], text)
        /\ TimeInRange(TimeGroups(time_patterns[p], text))

\* C9: when the stream holds a fragment with a valid timestamp, the pattern
\* tier yields exactly one time point for each fragment with a range-valid
\* match and none for the others, by strictly increasing fragment index.
C9_PatternTierOnePerFragment ==
    (tier = 1) =>
        /\ \A n \in 1..Len(text_blocks) :
               Cardinality({k \in 1..Len(time_points) :
                               time_points[k].index = n - 1})
               = IF HasRangeValidMatch(text_blocks[n]) THEN 1 ELSE 0
        /\ \A k \in 1..(Len(time_points) - 1) :
               time_points[k].index < time_points[k + 1].index
        /\ \A k \in 1..Len(time_points) :
               time_points[k].text = text_blocks[time_points[k].index + 1]

\* the pattern tier found two time points and left a fragment without one, a
\* fragment of timestamp shape and out of range among them
C9_Witness ==
    /\ tier = 1
    /\ Len(time_points) = 2
    /\ Len(text_blocks) = 3
    /\ \E n \in 1..Len(text_blocks) : text_blocks[n] = F_TimeBad
    /\ \E n \in 1..Len(text_blocks) : text_blocks[n] = F_TimeDot

\* C10: the windows are non-empty, follow one another without gap or overlap
\* from the first time point's index to the stream length, and no fragment
\* before the first time point is in a window.
C10_WindowsPartition ==
    /\ \A k \in 1..Len(windows) : windows[k][1] < windows[k][2]
    /\ \A k \in 1..(Len(windows) - 1) : windows[k][2] = windows[k + 1][1]
    /\ \A k \in 1..Len(windows) :
           /\ windows[k][1] = time_points[k].index
           /\ windows[k][1] >= time_points[1].index
           /\ windows[k][2] <= Len(text_blocks)
    /\ (pc \notin {"pattern", "context", "synthetic", "windows"}
        /\ time_points # <<>>) =>
           /\ Len(windows) = Len(time_points)
           /\ windows[1][1] = time_points[1].index
           /\ windows[Len(windows)][2] = Len(text_blocks)

\* all windows of a stream are built, there are several, and a fragment
\* before the first time point is left out
C10_Witness ==
    /\ Returned
    /\ Len(windows) >= 2
    /\ windows[1][1] > 0

(***************************************************************************)
(* The amount rule of the window loop, on streams of amount fragments      *)
(***************************************************************************)
F_AmountComma == <<"-", "1", ",", "2", "3", "4", ".", "5", "6">>
F_AmountShort == <<"-", "5">>
F_AmountYuan == <<"1", ",", "0", "0", "0", "yuan">>
F_Income == <<"+", "1", "0", "0", ".", "0", "0">>

MaxAmountLen == 3

\* the fragments that open a stream: a skipped timestamp, a timestamp that is
\* not skipped, a keyword
AmountHeads == {F_TimeJoined, F_TimeSpace, W_HuanCheDai}

AmountFragments ==
    {F_TimeJoined, F_AmountComma, F_AmountShort, F_AmountYuan, F_Amount3007,
     F_Income}

AmountStreams ==
    StreamsOver(AmountFragments, MaxAmountLen)
    \cup {<<h>> \o s : h \in AmountHeads,
                       s \in StreamsOver(AmountFragments, MaxAmountLen)}

InitAmounts == \E blocks \in AmountStreams : InitWith(blocks)

SpecAmounts == InitAmounts /\ [][Next]_vars

\* relevant_texts of the k-th window
WindowTexts(k) == Slice(text_blocks, windows[k][1], windows[k][2])

\* the record the window loop builds for the k-th window
WindowRecord(k) == ExtractWindow(time_points[k], WindowTexts(k))

\* the numeric portion with which the outflow rule matches the fragment: the
\* group of the first pattern that is longer than 2 characters and positive
NumericPortion(text) ==
    LET gs == amount_patterns(text)
        ps == {p \in 1..Len(gs) :
                  Len(gs[p]) > 2 /\ FloatPositive(StripCommas(gs[p]))}
    IN  IF ps = {} THEN <<>> ELSE gs[Min(ps)]

\* the fragment is not passed over as a timestamp and yields an amount
YieldsAmount(text) ==
    /\ ~IsSkippedTimestamp(text)
    /\ (NumericPortion(text) # <<>> \/ InflowAmount(text) # <<>>)

\* C11 (as stated): for every window and every fragment of it that the outflow
\* rule matches with a numeric portion longer than 2 characters and positive,
\* the record's amount is "-" followed by that portion without its commas.
C11_EveryOutflowFragmentStored ==
    \A k \in 1..Len(windows) :
        \A j \in 1..Len(WindowTexts(k)) :
            LET text == WindowTexts(k)[j]
            IN  (~IsSkippedTimestamp(text) /\ NumericPortion(text) # <<>>) =>
                    WindowRecord(k).amount
                    = <<"-">> \o StripCommas(NumericPortion(text))

\* C11 (amended): for every window, the first fragment of it that yields an
\* amount, when the outflow rule matches it with a numeric portion longer than
\* 2 characters and positive, gives the record's amount: "-" followed by that
\* portion with only its commas removed; later fragments leave it alone.
C11_FirstOutflowFragmentStored ==
    \A k \in 1..Len(windows) :
        \A j \in 1..Len(WindowTexts(k)) :
            LET text == WindowTexts(k)[j]
            IN  (/\ ~IsSkippedTimestamp(text)
                 /\ NumericPortion(text) # <<>>
                 /\ \A m \in 1..(j - 1) : ~YieldsAmount(WindowTexts(k)[m])) =>
                    WindowRecord(k).amount
                    = <<"-">> \o StripCommas(NumericPortion(text))

\* a window whose amount comes from a fragment with commas that follows a
\* fragment with too short a numeric portion, and is followed by another amount
C11_Witness ==
    \E k \in 1..Len(windows) :
        /\ Len(WindowTexts(k)) = 4
        /\ WindowTexts(k)[2] = F_AmountShort
        /\ WindowTexts(k)[3] = F_AmountComma
        /\ WindowTexts(k)[4] = F_Amount3007
        /\ WindowRecord(k).amount = <<"-", "1", "2", "3", "4", ".", "5", "6">>

(***************************************************************************)
(* classify_transaction_type and its rule table                            *)
(***************************************************************************)
UpperCase ==
    <<"A", "B", "C", "D", "E", "F", "G", "H", "I", "J", "K", "L", "M", "N",
      "O", "P", "Q", "R", "S", "T", "U", "V", "W", "X", "Y", "Z">>

LowerCase ==
    <<"a", "b", "c", "d", "e", "f", "g", "h", "i", "j", "k", "l", "m", "n",
      "o", "p", "q", "r", "s", "t", "u", "v", "w", "x", "y", "z">>

\* Python: c.lower() for one character
LowerChar(c) ==
    IF \E k \in 1..Len(UpperCase) : UpperCase[k] = c
    THEN LowerCase[CHOOSE k \in 1..Len(UpperCase) : UpperCase[k] = c]
    ELSE c

\* Python: text.lower()
Lower(text) == [k \in 1..Len(text) |-> LowerChar(text[k])]

\* the rule table, in the order of the dictionary; a pattern is the sequence
\* of its literal parts, which the regular expression separates (and may
\* surround) by "any characters"
transaction_patterns ==
    <<
       [category |-> <<"huan", "kuan">>,
        keywords |->
            <<
              <<"huan", "kuan">>, <<"huan", "dai">>, <<"huan", "che", "dai">>,
              <<"huan", "fang", "dai">>, <<"huan", "xin", "yong", "ka">>,
              <<"huan", "hua", "bei">>, <<"huan", "jie", "bei">>,
              <<"huan", "bai", "tiao">>, <<"xiao", "e", "dai", "kuan">>,
              <<"dai", "kuan">> >>,
        patterns |->
            <<
              <<<<"huan">>, <<"dai">>>>, <<<<"huan">>, <<"kuan">>>>,
              <<<<"huan">>, <<"bei">>>>, <<<<"huan">>, <<"tiao">>>>,
              <<<<"dai", "kuan">>>> >>,
        priority |-> 1],
       [category |-> <<"zhuan", "zhang">>,
        keywords |->
            <<
              <<"zhuan", "zhang">>, <<"zhuan", "gei">>, <<"zhuan", "ru">>,
              <<"zhuan", "chu1">>, <<"hui", "kuan">>, <<"da", "kuan">>,
              <<"wei", "xin", "zhuan", "zhang">>,
              <<"zhi1", "fu", "bao3", "zhuan", "zhang">> >>,
        patterns |->
            <<
              <<<<"zhuan">>, <<"gei">>>>, <<<<"zhuan">>, <<"ru">>>>,
              <<<<"zhuan">>, <<"chu1">>>>, <<<<"hui">>, <<"kuan">>>>,
              <<<<"zhuan", "zhang">>>> >>,
        priority |-> 2],
       [category |-> <<"can", "yin3">>,
        keywords |->
            <<
              <<"can", "yin3">>, <<"mei3", "shi">>, <<"wai", "mai">>,
              <<"can", "ting">>, <<"fan", "dian">>, <<"huo", "guo">>,
              <<"shao", "kao">>, <<"nai", "cha">>, <<"ka1", "fei1">>,
              <<"ling", "shi">>, <<"mi", "li">> >>,
        patterns |->
            <<
              <<<<"can">>>>, <<<<"shi">>>>, <<<<"wai", "mai">>>>,
              <<<<"nai", "cha">>>>, <<<<"ka1", "fei1">>>>, <<<<"mi", "li">>>> >>,
        priority |-> 3],
       [category |-> <<"gou", "wu">>,
        keywords |->
            <<
              <<"gou", "wu">>, <<"tao", "bao3">>, <<"jing", "dong">>,
              <<"tian", "mao">>, <<"pin", "duo", "duo">>,
              <<"shang", "chang">>, <<"chao", "shi4">>,
              <<"bian", "li4", "dian">>, <<"fu2", "zhuang">>, <<"xie", "zi">> >>,
        patterns |->
            <<
              <<<<"tao", "bao3">>>>, <<<<"jing", "dong">>>>,
              <<<<"tian", "mao">>>>, <<<<"pin", "duo", "duo">>>>,
              <<<<"shang", "chang">>>>, <<<<"chao", "shi4">>>> >>,
        priority |-> 4],
       [category |-> <<"jiao1", "tong">>,
        keywords |->
            <<
              <<"jiao1", "tong">>, <<"da", "che">>, <<"gong", "jiao1">>,
              <<"di", "tie">>, <<"gao", "tie">>, <<"fei3", "ji">>,
              <<"huo", "che">>, <<"chu1", "zu", "che">>, <<"di1", "di1">>,
              <<"gong4", "xiang", "dan", "che">> >>,
        patterns |->
            <<
              <<<<"da", "che">>>>, <<<<"gong", "jiao1">>>>,
              <<<<"di", "tie">>>>, <<<<"gao", "tie">>>>, <<<<"fei3", "ji">>>>,
              <<<<"huo", "che">>>>, <<<<"di1", "di1">>>> >>,
        priority |-> 5],
       [category |-> <<"yu2", "le">>,
        keywords |->
            <<
              <<"yu2", "le">>, <<"dian4", "ying">>, <<"you", "xi">>,
              <<"K", "T", "V">>, <<"jiu", "ba1">>, <<"wang", "ba1">>,
              <<"you", "le", "yuan2">>, <<"yan", "chang4", "hui4">>,
              <<"yin1", "le", "hui4">> >>,
        patterns |->
            <<
              <<<<"dian4", "ying">>>>, <<<<"you", "xi">>>>,
              <<<<"K", "T", "V">>>>, <<<<"jiu", "ba1">>>>,
              <<<<"wang", "ba1">>>> >>,
        priority |-> 6],
       [category |-> <<"yi", "liao">>,
        keywords |->
            <<
              <<"yi", "liao">>, <<"yi", "yuan4">>, <<"zhen", "suo">>,
              <<"yao", "dian">>, <<"yao", "pin3">>, <<"jian", "cha2">>,
              <<"zhi3", "liao">>, <<"shou3", "shu">>, <<"gua", "hao">> >>,
        patterns |->
            <<
              <<<<"yi", "yuan4">>>>, <<<<"zhen", "suo">>>>,
              <<<<"yao", "dian">>>>, <<<<"yao", "pin3">>>>,
              <<<<"jian", "cha2">>>> >>,
        priority |-> 7],
       [category |-> <<"jiao4", "yu4">>,
        keywords |->
            <<
              <<"jiao4", "yu4">>, <<"xue", "fei">>, <<"pei", "xun">>,
              <<"ke4", "cheng">>, <<"xue", "xi2">>, <<"kao3", "shi5">>,
              <<"bao4", "ming", "fei">>, <<"jiao4", "cai">> >>,
        patterns |->
            <<
              <<<<"xue", "fei">>>>, <<<<"pei", "xun">>>>,
              <<<<"ke4", "cheng">>>>, <<<<"xue", "xi2">>>>,
              <<<<"kao3", "shi5">>>> >>,
        priority |-> 8],
       [category |-> <<"zhu", "fang">>,
        keywords |->
            <<
              <<"fang", "zu">>, <<"shui", "dian4", "fei">>,
              <<"wu", "ye", "fei">>, <<"ran", "qi", "fei">>,
              <<"wang", "fei">>, <<"dian4", "hua4", "fei">>,
              <<"kuan1", "dai4">>, <<"mei", "qi", "fei">>,
              <<"guan", "dao", "mei", "qi", "fei">> >>,
        patterns |->
            <<
              <<<<"fang", "zu">>>>, <<<<"shui", "dian4", "fei">>>>,
              <<<<"wu", "ye", "fei">>>>, <<<<"ran", "qi", "fei">>>>,
              <<<<"wang", "fei">>>>, <<<<"mei", "qi", "fei">>>> >>,
        priority |-> 9],
       [category |-> <<"tou", "zi1", "li3", "cai2">>,
        keywords |->
            <<
              <<"tou", "zi1">>, <<"li3", "cai2">>, <<"ji1", "jin">>,
              <<"gu", "piao">>, <<"zhai", "quan">>, <<"bao", "xian">>,
              <<"cun", "kuan">>, <<"li4", "xi1">>, <<"bao", "xian", "fei">>,
              <<"ren", "shen", "bao", "xian", "fei">>,
              <<"ping", "an", "ren", "shou">> >>,
        patterns |->
            <<
              <<<<"tou", "zi1">>>>, <<<<"li3", "cai2">>>>,
              <<<<"ji1", "jin">>>>, <<<<"gu", "piao">>>>,
              <<<<"bao", "xian">>>>, <<<<"bao", "xian", "fei">>>>,
              <<<<"ren", "shou">>>> >>,
        priority |-> 10],
       [category |-> <<"gong1", "zi1", "shou1", "ru">>,
        keywords |->
            <<
              <<"gong1", "zi1">>, <<"xin1", "shui">>, <<"xin1", "zi1">>,
              <<"jiang", "jin">>, <<"ti", "cheng2">>, <<"fen", "hong">>,
              <<"jin1", "tie1">> >>,
        patterns |->
            <<
              <<<<"gong1", "zi1">>>>, <<<<"xin1", "shui">>>>,
              <<<<"xin1", "zi1">>>>, <<<<"jiang", "jin">>>>,
              <<<<"ti", "cheng2">>>> >>,
        priority |-> 11],
       [category |-> <<"qi2", "ta", "shou1", "ru">>,
        keywords |->
            <<
              <<"shou1", "ru">>, <<"shou1", "kuan">>, <<"tui", "kuan">>,
              <<"fan3", "xian4">>, <<"fan3", "li4">>, <<"bu", "tie1">>,
              <<"bao4", "xiao1">>, <<"ti", "xian4">>,
              <<"wei", "xin", "ling", "qian2", "ti", "xian4">>,
              <<"shou1", "dao4">> >>,
        patterns |->
            <<
              <<<<"shou1", "ru">>>>, <<<<"shou1", "kuan">>>>,
              <<<<"tui", "kuan">>>>, <<<<"fan3", "xian4">>>>,
              <<<<"fan3", "li4">>>>, <<<<"ti", "xian4">>>>,
              <<<<"shou1", "dao4">>>> >>,
        priority |-> 12]
    >>

\* the names returned when no rule matches, and for an empty title
C_Unknown == <<"wei4", "zhi">>
C_Other == <<"qi2", "ta">>
C_OtherIncome == <<"qi2", "ta", "shou1", "ru">>
C_OtherExpense == <<"qi2", "ta", "zhi1", "chu1">>

\* the word lists of the last resort
IncomeWords ==
    {<<"shou1", "ru">>, <<"shou1", "kuan">>, <<"tui", "kuan">>,
     <<"fan3", "xian4">>, <<"fan3", "li4">>}

ExpenseWords ==
    {<<"zhi1", "chu1">>, <<"xiao2", "fei">>, <<"kou", "kuan">>,
     <<"shou3", "xu4", "fei">>}

\* first position at or after from where word occurs in text; 0 when none
FindFrom(text, word, from) ==
    LET ks == {k \in from..Len(text) : WordAt(text, word, k)}
    IN  IF ks = {} THEN 0 ELSE Min(ks)

\* re.search(pattern, text) is not None: the parts occur in this order, one
\* after the end of the other, from position from on
RECURSIVE PatternSearch(_, _, _)
PatternSearch(parts, text, from) ==
    IF parts = <<>> THEN TRUE
    ELSE LET k == FindFrom(text, Head(parts), from)
         IN  k # 0 /\ PatternSearch(Tail(parts), text, k + Len(Head(parts)))

\* f"{title_lower} {sub_title_lower}"
CombinedText(title_lower, sub_title_lower) ==
    title_lower \o <<" ">> \o sub_title_lower

\* the score of one rule
Score(config, title_lower, sub_title_lower) ==
    2 * Cardinality({k \in 1..Len(config.keywords) :
                        \/ Contains(title_lower, config.keywords[k])
                        \/ Contains(sub_title_lower, config.keywords[k])})
    + Cardinality({k \in 1..Len(config.patterns) :
                      PatternSearch(config.patterns[k],
                                    CombinedText(title_lower, sub_title_lower),
                                    1)})

\* the loop over the rule table from rule n on, appending to matches ms
RECURSIVE ScoreRules(_, _, _, _)
ScoreRules(ms, title_lower, sub_title_lower, n) ==
    IF n > Len(transaction_patterns) THEN ms
    ELSE LET config == transaction_patterns[n]
             score == Score(config, title_lower, sub_title_lower)
         IN  ScoreRules(IF score > 0
                        THEN Append(ms, [category |-> config.category,
                                         score |-> score,
                                         priority |-> config.priority])
                        ELSE ms,
                        title_lower, sub_title_lower, n + 1)

\* the sort key (score, -priority) of a is greater than or equal to that of b
KeyGreaterEq(a, b) ==
    \/ a.score > b.score
    \/ a.score = b.score /\ (0 - a.priority) >= (0 - b.priority)

\* m put into the list ms, sorted by descending key, behind the entries whose
\* key is not smaller
RECURSIVE InsertMatch(_, _)
InsertMatch(ms, m) ==
    IF ms = <<>> THEN <<m>>
    ELSE IF KeyGreaterEq(Head(ms), m) THEN <<Head(ms)>> \o InsertMatch(Tail(ms), m)
    ELSE <<m>> \o ms

\* matches.sort(key = (score, -priority), reverse = True)
RECURSIVE SortMatches(_)
SortMatches(ms) ==
    IF ms = <<>> THEN <<>>
    ELSE InsertMatch(SortMatches(SubSeq(ms, 1, Len(ms) - 1)), ms[Len(ms)])

\* a variant of NewMatches that keeps the list of the call before
NewMatchesCarriedOver(old) == old

\* matches = [] at the head of a call; old is the list of the call before
NewMatches(old) == <<>>

\* matches at the end of the call
MatchesOf(old, title, sub_title) ==
    IF title = <<>> THEN old
    ELSE SortMatches(ScoreRules(NewMatches(old), Lower(title), Lower(sub_title), 1))

\* a variant of FallbackCategory that hands the title back
FallbackCategoryTitle(title_lower) == title_lower

\* the last resort, when no rule has a positive score
FallbackCategory(title_lower) ==
    IF ContainsAny(title_lower, IncomeWords) THEN C_OtherIncome
    ELSE IF ContainsAny(title_lower, ExpenseWords) THEN C_OtherExpense
    ELSE C_Other

\* the value classify_transaction_type returns, ms being matches at its end
Category(ms, title) ==
    IF title = <<>> THEN C_Unknown
    ELSE IF ms # <<>> THEN ms[1].category
    ELSE FallbackCategory(Lower(title))

\* one call of classify_transaction_type, recorded in calls
ClassifyCall(title, sub_title) ==
    /\ matches' = MatchesOf(matches, title, sub_title)
    /\ calls' = Append(calls, [title |-> title, sub_title |-> sub_title,
                               category |-> Category(matches', title)])

\* groups of the outer variables
classifyVars == <<matches, calls>>
batchVars ==
    <<image_files, image_index, all_transactions, successful_images,
      failed_images, outputs>>
mainVars ==
    <<success, exit_status, EASYOCR_AVAILABLE, OPENPYXL_AVAILABLE,
      input_dir_exists>>

(***************************************************************************)
(* The classifier called on its own, several times in a row                *)
(***************************************************************************)
T_LifeInsurance == <<"ping", "an", "ren", "shou", "bao", "xian", "fei">>
T_KTV == <<"K", "T", "V">>
T_RepayTransfer == <<"huan", "kuan", "zhuan", "zhang">>
T_Starbucks == <<"xing", "ba", "ke">>
T_Fee == <<"shou3", "xu4", "fei">>
T_Repay1 == <<"huan">>
T_Loan1 == <<"dai">>
T_Refund == <<"tui", "kuan">>
T_GasFee == <<"guan", "dao", "mei", "qi", "fei">>
T_Repayment == <<"huan", "kuan">>
T_WeChatTransfer == <<"wei", "xin", "zhuan", "zhang">>
T_Insurance2 == <<"bao", "xian">>

\* the (title, sub_title) pairs the classifier is called with
ClassifyInputs ==
    {<<T_LifeInsurance, <<>>>>, <<T_KTV, <<>>>>, <<T_RepayTransfer, <<>>>>,
     <<T_Starbucks, <<>>>>, <<T_Fee, <<>>>>, <<<<>>, W_ZhuanZhang>>,
     <<T_Repay1, T_Loan1>>, <<T_Refund, <<>>>>, <<T_GasFee, F_Account>>,
     <<W_ZhuanZhang, T_Repayment>>, <<T_WeChatTransfer, <<>>>>,
     <<T_Insurance2, W_ZhuanZhang>>}

MaxCalls == 3

InitClassify ==
    /\ text_blocks = <<>>
    /\ pc = "classify"
    /\ time_points = <<>>
    /\ tier = 0
    /\ i = 0
    /\ windows = <<>>
    /\ transactions = <<>>
    /\ candidates = <<>>
    /\ d = 0
    /\ cleaned_transactions = <<>>
    /\ seen_keys = {}
    /\ round = 1
    /\ first_output = <<>>
    /\ InitOuter

\* a caller calls classify_transaction_type
Classify ==
    /\ pc = "classify"
    /\ Len(calls) < MaxCalls
    /\ \E input \in ClassifyInputs : ClassifyCall(input[1], input[2])
    /\ UNCHANGED <<extractVars, enhanced_transactions, batchVars, mainVars,
                   quality_report>>

NextClassify == Classify

SpecClassify == InitClassify /\ [][NextClassify]_vars

\* the score of rule n as the specification words it: 2 for each keyword that
\* occurs in title or sub_title, 1 for each pattern that matches the two joined
StatedScore(n, title, sub_title) ==
    LET config == transaction_patterns[n]
    IN  2 * Cardinality({k \in 1..Len(config.keywords) :
                            \/ Contains(title, config.keywords[k])
                            \/ Contains(sub_title, config.keywords[k])})
        + Cardinality({k \in 1..Len(config.patterns) :
                          PatternSearch(config.patterns[k],
                                        CombinedText(title, sub_title), 1)})

\* the rules with a positive stated score
StatedMatches(title, sub_title) ==
    {n \in 1..Len(transaction_patterns) : StatedScore(n, title, sub_title) > 0}

\* rule n has the highest (score, -priority) among the rules ns
StatedBest(n, ns, title, sub_title) ==
    /\ n \in ns
    /\ \A m \in ns :
           \/ StatedScore(n, title, sub_title) > StatedScore(m, title, sub_title)
           \/ /\ StatedScore(n, title, sub_title) = StatedScore(m, title, sub_title)
              /\ transaction_patterns[n].priority
                 <= transaction_patterns[m].priority

\* C12: for a non-empty title the classifier returns the category of the rule
\* with the highest (score, -priority) among the rules with a positive score,
\* the score being 2 per keyword occurring in title or sub_title plus 1 per
\* pattern matching the joined text, the lower priority number winning a tie;
\* and the life-insurance title of Scenario E is classified as investment.
C12_HighestScoreWins ==
    \A k \in 1..Len(calls) :
        LET c == calls[k]
            ns == StatedMatches(c.title, c.sub_title)
        IN  /\ (c.title # <<>> /\ ns # {}) =>
                   \E n \in ns :
                       /\ StatedBest(n, ns, c.title, c.sub_title)
                       /\ c.category = transaction_patterns[n].category
            /\ (c.title = T_LifeInsurance /\ c.sub_title = <<>>) =>
                   c.category = <<"tou", "zi1", "li3", "cai2">>

\* the twelve category names of the rule table
Categories ==
    {transaction_patterns[n].category : n \in 1..Len(transaction_patterns)}

\* the residual names
Residuals == {C_Other, C_OtherIncome, C_OtherExpense}

\* C13 (as stated): for every (title, sub_title), an empty title included, the
\* classifier returns one of the twelve categories of the rule table or one of
\* the three residual names, and nothing else.
C13_CategoryInTaxonomy ==
    \A k \in 1..Len(calls) : calls[k].category \in Categories \cup Residuals

\* C13 (amended): for a non-empty title the classifier returns one of the
\* twelve categories of the rule table or one of the three residual names; for
\* an empty title it returns the name "unknown", whatever the sub_title.
C13_CategoryInTaxonomyOrUnknown ==
    \A k \in 1..Len(calls) :
        IF calls[k].title = <<>>
        THEN calls[k].category = C_Unknown
        ELSE calls[k].category \in Categories \cup Residuals

\* the classifier has been called with an empty title, with a title no rule
\* matches and with a title a rule matches
C13_Witness ==
    /\ \E k \in 1..Len(calls) :
           calls[k].title = <<>> /\ calls[k].sub_title # <<>>
    /\ \E k \in 1..Len(calls) : calls[k].category = C_OtherExpense
    /\ \E k \in 1..Len(calls) : calls[k].category = <<"zhu", "fang">>

\* C14: two calls of the classifier with the same (title, sub_title) return
\* the same category, whatever calls were made before or between them.
C14_ClassifierDeterministic ==
    \A a, b \in 1..Len(calls) :
        (calls[a].title = calls[b].title
         /\ calls[a].sub_title = calls[b].sub_title) =>
            calls[a].category = calls[b].category

\* a title no rule matches was classified before and after a title that a
\* rule matches
C14_Witness ==
    /\ Len(calls) = 3
    /\ calls[1].title = T_Starbucks
    /\ calls[2].title = T_LifeInsurance
    /\ calls[3].title = T_Starbucks
    /\ calls[3].category = C_Other

(***************************************************************************)
(* enhance_transaction_data                                                *)
(***************************************************************************)
W_WeiXin == <<"wei", "xin">>

\* Python: transaction.get(field), None being read as the empty text
Get(transaction, field) ==
    IF field \in DOMAIN transaction THEN transaction[field] ELSE <<>>

\* the sub-title and account taken from a savings-card number in the title,
\* when the record has a title and no sub-title
EnhanceAccount(tr) ==
    LET digits == PrefixDigits(W_ChuXuKa, FALSE, tr.title)
    IN  IF tr.sub_title = <<>> /\ tr.title # <<>> /\ digits # <<>>
        THEN [tr EXCEPT !.account = W_ChuXuKa \o digits,
                        !.sub_title = W_ChuXuKa \o digits]
        ELSE tr

\* the payment method inferred from the title
InferredPayment(title) ==
    IF Contains(title, W_WeiXin) THEN W_WeiXinZhiFu
    ELSE IF Contains(title, W_ZhiFuBao) THEN W_ZhiFuBao
    ELSE IF Contains(title, W_ChuXuKa) \/ Contains(title, W_YinHangKa)
         THEN W_YinHangKa
    ELSE <<>>

\* a variant of EnhancePayment that infers the payment method even when the
\* record has one
EnhancePaymentAlways(tr) ==
    IF InferredPayment(tr.title) # <<>>
    THEN [tr EXCEPT !.payment_method = InferredPayment(tr.title)]
    ELSE tr

\* the payment method is inferred when the record has none
EnhancePayment(tr) ==
    IF tr.payment_method = <<>> /\ InferredPayment(tr.title) # <<>>
    THEN [tr EXCEPT !.payment_method = InferredPayment(tr.title)]
    ELSE tr

\* the record before its classification
Backfilled(transaction) == EnhancePayment(EnhanceAccount(transaction))

\* the record enhance_transaction_data returns, category being the value of
\* classify_transaction_type for its title and sub-title
Enhanced(transaction, category) ==
    LET tr == Backfilled(transaction)
    IN  [f \in DOMAIN tr \cup {"transaction_type"} |->
            IF f = "transaction_type"
            THEN (IF Get(tr, f) = <<>> THEN category ELSE tr[f])
            ELSE tr[f]]

(***************************************************************************)
(* _generate_quality_report                                                *)
(***************************************************************************)
\* the seven fields of the report, in the order of its rows
ReportFields ==
    <<"title", "datetime", "amount", "balance", "payment_method", "account",
      "transaction_type">>

\* sum(1 for t in transactions if t.get(field))
RECURSIVE CompleteCount(_, _)
CompleteCount(ts, field) ==
    IF ts = <<>> THEN 0
    ELSE (IF Get(Head(ts), field) # <<>> THEN 1 ELSE 0)
         + CompleteCount(Tail(ts), field)

\* n / dd rounded to the nearest integer, a tie going to the even one
RoundDiv(n, dd) ==
    LET q == n \div dd
        r == n % dd
    IN  IF 2 * r > dd THEN q + 1
        ELSE IF 2 * r < dd THEN q
        ELSE IF q % 2 = 0 THEN q ELSE q + 1

\* f"{rate:.1f}%" for the rate n / dd * 100
FormatRate(n, dd) ==
    LET tenths == RoundDiv(1000 * n, dd)
    IN  DecimalDigits(tenths \div 10) \o <<".">>
        \o <<DigitChar(tenths % 10)>> \o <<"%">>

\* the sum of the seven complete counts
RECURSIVE CompleteSum(_, _)
CompleteSum(ts, k) ==
    IF k > Len(ReportFields) THEN 0
    ELSE CompleteCount(ts, ReportFields[k]) + CompleteSum(ts, k + 1)

\* the row of one field
FieldRow(ts, field) ==
    [name |-> field,
     complete |-> CompleteCount(ts, field),
     total |-> Len(ts),
     rate |-> FormatRate(CompleteCount(ts, field), Len(ts))]

\* the last row: the mean of the seven rates
OverallRow(ts) ==
    [name |-> "overall",
     complete |-> FormatRate(CompleteSum(ts, 1), 7 * Len(ts)),
     total |-> <<"1", "0", "0", "%">>,
     rate |-> FormatRate(CompleteSum(ts, 1), 7 * Len(ts))]

\* a variant of GenerateQualityReport that builds the rows for an empty list
\* too, with rates of zero
GenerateQualityReportAlways(ts) ==
    IF ts = <<>>
    THEN [k \in 1..(Len(ReportFields) + 1) |->
             IF k <= Len(ReportFields)
             THEN [name |-> ReportFields[k], complete |-> 0, total |-> 0,
                   rate |-> <<"0", ".", "0", "%">>]
             ELSE [name |-> "overall", complete |-> <<"0", ".", "0", "%">>,
                   total |-> <<"1", "0", "0", "%">>,
                   rate |-> <<"0", ".", "0", "%">>]]
    ELSE [k \in 1..(Len(ReportFields) + 1) |->
             IF k <= Len(ReportFields) THEN FieldRow(ts, ReportFields[k])
             ELSE OverallRow(ts)]

\* the value _generate_quality_report returns
GenerateQualityReport(ts) ==
    IF ts = <<>> THEN <<>>
    ELSE [k \in 1..(Len(ReportFields) + 1) |->
             IF k <= Len(ReportFields) THEN FieldRow(ts, ReportFields[k])
             ELSE OverallRow(ts)]

(***************************************************************************)
(* main, run, batch_process and process_image                              *)
(***************************************************************************)
F_RepayCard == <<"huan", "kuan", "chu", "xu", "ka", "6", "8", "4", "2">>
F_Card1111 == <<"chu", "xu", "ka", "1", "1", "1", "1">>

\* what the recognition of an image yields: the streams of four images
S_Payment == <<F_TimeJoined, T_WeChatTransfer, F_Amount3007>>
S_PaymentKept == <<F_TimeJoined, T_WeChatTransfer, F_WeChat>>
S_Card == <<F_RepayCard, F_Card1111, F_Amount3007>>
S_NoRecord == <<F_Transfer>>

\* an image: the stream of fragments its recognition yields (empty when the
\* recognition finds nothing or fails), or an exception that process_image
\* raises for it
Image(raises, blocks) == [raises |-> raises, text_blocks |-> blocks]

ImageContents ==
    {Image(TRUE, <<>>)}
    \cup {Image(FALSE, blocks) :
              blocks \in {<<>>, S_Payment, S_PaymentKept, S_Card, S_NoRecord}}

MaxImages == 3

\* the directories: up to MaxImages images
Directories == {<<>>} \cup StreamsOver(ImageContents, MaxImages)

InitMain ==
    /\ text_blocks = <<>>
    /\ pc = "main"
    /\ time_points = <<>>
    /\ tier = 0
    /\ i = 0
    /\ windows = <<>>
    /\ transactions = <<>>
    /\ candidates = <<>>
    /\ d = 0
    /\ cleaned_transactions = <<>>
    /\ seen_keys = {}
    /\ round = 1
    /\ first_output = <<>>
    /\ matches = <<>>
    /\ calls = <<>>
    /\ enhanced_transactions = <<>>
    /\ image_files \in Directories
    /\ image_index = 0
    /\ all_transactions = <<>>
    /\ successful_images = 0
    /\ failed_images = 0
    /\ outputs = <<>>
    /\ success = "none"
    /\ exit_status = -1
    /\ quality_report = <<>>
    /\ EASYOCR_AVAILABLE \in BOOLEAN
    /\ OPENPYXL_AVAILABLE \in BOOLEAN
    /\ input_dir_exists \in BOOLEAN

\* main returns at once when a dependency is missing; the interpreter then
\* ends with status 0
MainMissingDeps ==
    /\ pc = "main"
    /\ ~EASYOCR_AVAILABLE \/ ~OPENPYXL_AVAILABLE
    /\ exit_status' = 0
    /\ pc' = "exited"
    /\ UNCHANGED <<text_blocks, time_points, tier, i, windows, transactions,
                   candidates, d, cleaned_transactions, seen_keys, round,
                   first_output, classifyVars, enhanced_transactions,
                   batchVars, success, quality_report, EASYOCR_AVAILABLE,
                   OPENPYXL_AVAILABLE, input_dir_exists>>

\* main builds the extractor and calls run
MainCallsRun ==
    /\ pc = "main"
    /\ EASYOCR_AVAILABLE /\ OPENPYXL_AVAILABLE
    /\ pc' = "run"
    /\ UNCHANGED <<text_blocks, time_points, tier, i, windows, transactions,
                   candidates, d, cleaned_transactions, seen_keys, round,
                   first_output, outerVars>>

\* run returns False without recognition or without the input directory,
\* and calls batch_process otherwise
RunChecks ==
    /\ pc = "run"
    /\ IF ~EASYOCR_AVAILABLE \/ ~input_dir_exists
       THEN success' = "False" /\ pc' = "main_end"
       ELSE success' = success /\ pc' = "batch"
    /\ UNCHANGED <<text_blocks, time_points, tier, i, windows, transactions,
                   candidates, d, cleaned_transactions, seen_keys, round,
                   first_output, classifyVars, enhanced_transactions,
                   batchVars, exit_status, quality_report, EASYOCR_AVAILABLE,
                   OPENPYXL_AVAILABLE, input_dir_exists>>

\* batch_process up to its loop; it returns [] for a directory without images
BatchStart ==
    /\ pc = "batch"
    /\ all_transactions' = <<>>
    /\ successful_images' = 0
    /\ failed_images' = 0
    /\ image_index' = 0
    /\ pc' = IF image_files = <<>> THEN "batch_done" ELSE "image"
    /\ UNCHANGED <<text_blocks, time_points, tier, i, windows, transactions,
                   candidates, d, cleaned_transactions, seen_keys, round,
                   first_output, classifyVars, enhanced_transactions,
                   image_files, outputs, mainVars, quality_report>>

\* the entry of process_image's result in outputs
Output(image, raised, result) ==
    [image |-> image, raised |-> raised, result |-> result]

\* a variant of Accumulate that replaces the accumulated records
AccumulateReplacing(all, result) == result

\* all_transactions.extend(transactions)
Accumulate(all, result) == all \o result

\* a variant of NewTransactions that goes on with the list of the call before
NewTransactionsCarriedOver(old) == old

\* transactions = [] at the head of extract_transactions_from_text; old is
\* the list of the call before
NewTransactions(old) == <<>>

\* process_image raises: the image is counted as failed, the loop goes on
ImageRaises ==
    /\ pc = "image"
    /\ image_index < Len(image_files)
    /\ image_files[image_index + 1].raises
    /\ failed_images' = failed_images + 1
    /\ outputs' = Append(outputs, Output(image_files[image_index + 1], TRUE, <<>>))
    /\ image_index' = image_index + 1
    /\ UNCHANGED <<extractVars, classifyVars, enhanced_transactions,
                   image_files, all_transactions, successful_images, mainVars,
                   quality_report>>

\* the recognition yields no text: process_image returns [], the image is
\* counted as failed
ImageNoText ==
    /\ pc = "image"
    /\ image_index < Len(image_files)
    /\ ~image_files[image_index + 1].raises
    /\ image_files[image_index + 1].text_blocks = <<>>
    /\ failed_images' = failed_images + 1
    /\ outputs' = Append(outputs, Output(image_files[image_index + 1], FALSE, <<>>))
    /\ image_index' = image_index + 1
    /\ UNCHANGED <<extractVars, classifyVars, enhanced_transactions,
                   image_files, all_transactions, successful_images, mainVars,
                   quality_report>>

\* process_image calls extract_transactions_from_text with the text it found
ImageExtract ==
    /\ pc = "image"
    /\ image_index < Len(image_files)
    /\ ~image_files[image_index + 1].raises
    /\ image_files[image_index + 1].text_blocks # <<>>
    /\ text_blocks' = image_files[image_index + 1].text_blocks
    /\ transactions' = NewTransactions(transactions)
    /\ time_points' = <<>>
    /\ tier' = 0
    /\ i' = 0
    /\ windows' = <<>>
    /\ candidates' = <<>>
    /\ enhanced_transactions' = <<>>
    /\ pc' = "pattern"
    /\ UNCHANGED <<d, cleaned_transactions, seen_keys, round, first_output,
                   classifyVars, batchVars, mainVars, quality_report>>

\* one iteration of the loop of process_image over the returned records
EnhanceTransaction ==
    /\ pc = "done"
    /\ Len(enhanced_transactions) < Len(transactions)
    /\ LET transaction == transactions[Len(enhanced_transactions) + 1]
           tr == Backfilled(transaction)
       IN  /\ IF Get(tr, "transaction_type") = <<>>
              THEN ClassifyCall(tr.title, tr.sub_title)
              ELSE UNCHANGED classifyVars
           /\ enhanced_transactions' =
                  Append(enhanced_transactions,
                         Enhanced(transaction,
                                  Category(matches', tr.title)))
    /\ UNCHANGED <<extractVars, batchVars, mainVars, quality_report>>

\* process_image returns; batch_process counts the image and goes on
ImageReturns ==
    /\ pc = "done"
    /\ Len(enhanced_transactions) = Len(transactions)
    /\ IF enhanced_transactions # <<>>
       THEN /\ all_transactions' =
                   Accumulate(all_transactions, enhanced_transactions)
            /\ successful_images' = successful_images + 1
            /\ UNCHANGED failed_images
       ELSE /\ failed_images' = failed_images + 1
            /\ UNCHANGED <<all_transactions, successful_images>>
    /\ outputs' = Append(outputs, Output(image_files[image_index + 1], FALSE,
                                         enhanced_transactions))
    /\ image_index' = image_index + 1
    /\ pc' = "image"
    /\ UNCHANGED <<text_blocks, time_points, tier, i, windows, transactions,
                   candidates, d, cleaned_transactions, seen_keys, round,
                   first_output, classifyVars, enhanced_transactions,
                   image_files, mainVars, quality_report>>

\* the loop of batch_process ends: it returns all_transactions
BatchReturns ==
    /\ pc = "image"
    /\ image_index = Len(image_files)
    /\ pc' = "batch_done"
    /\ UNCHANGED <<text_blocks, time_points, tier, i, windows, transactions,
                   candidates, d, cleaned_transactions, seen_keys, round,
                   first_output, outerVars>>

\* run returns False when batch_process returned no record
RunNoTransactions ==
    /\ pc = "batch_done"
    /\ all_transactions = <<>>
    /\ success' = "False"
    /\ pc' = "main_end"
    /\ UNCHANGED <<text_blocks, time_points, tier, i, windows, transactions,
                   candidates, d, cleaned_transactions, seen_keys, round,
                   first_output, classifyVars, enhanced_transactions,
                   batchVars, exit_status, quality_report, EASYOCR_AVAILABLE,
                   OPENPYXL_AVAILABLE, input_dir_exists>>

\* run exports the records and returns what export_to_excel returns; the
\* export builds the quality report and fails when writing the file fails
RunExport ==
    /\ pc = "batch_done"
    /\ all_transactions # <<>>
    /\ \E written \in BOOLEAN :
           success' = IF OPENPYXL_AVAILABLE /\ written THEN "True" ELSE "False"
    /\ quality_report' = IF OPENPYXL_AVAILABLE
                         THEN GenerateQualityReport(all_transactions)
                         ELSE quality_report
    /\ pc' = "main_end"
    /\ UNCHANGED <<text_blocks, time_points, tier, i, windows, transactions,
                   candidates, d, cleaned_transactions, seen_keys, round,
                   first_output, classifyVars, enhanced_transactions,
                   batchVars, exit_status, EASYOCR_AVAILABLE,
                   OPENPYXL_AVAILABLE, input_dir_exists>>

\* main prints the outcome and returns; the interpreter ends with status 0
MainReturns ==
    /\ pc = "main_end"
    /\ exit_status' = 0
    /\ pc' = "exited"
    /\ UNCHANGED <<text_blocks, time_points, tier, i, windows, transactions,
                   candidates, d, cleaned_transactions, seen_keys, round,
                   first_output, classifyVars, enhanced_transactions,
                   batchVars, success, quality_report, EASYOCR_AVAILABLE,
                   OPENPYXL_AVAILABLE, input_dir_exists>>

NextMain ==
    \/ MainMissingDeps
    \/ MainCallsRun
    \/ RunChecks
    \/ BatchStart
    \/ ImageRaises
    \/ ImageNoText
    \/ ImageExtract
    \/ DetectPattern
    \/ DetectContext
    \/ DetectSynthetic
    \/ ProcessWindow
    \/ SupplementMissed
    \/ SupplementFirstRecord
    \/ DedupStart
    \/ DedupStep
    \/ DedupFinish
    \/ EnhanceTransaction
    \/ ImageReturns
    \/ BatchReturns
    \/ RunNoTransactions
    \/ RunExport
    \/ MainReturns

SpecMain == InitMain /\ [][NextMain]_vars

\* the nine fields of a record that leaves the deduplication
RecordFields ==
    {"title", "sub_title", "amount", "balance", "payment_method", "account",
     "date", "time", "datetime"}

\* C15 (as stated): each record of the list process_image returns differs from
\* the record that left the deduplication only in transaction_type: its nine
\* other fields are unchanged.
C15_OnlyTypeAdded ==
    \A k \in 1..Len(enhanced_transactions) :
        \A f \in RecordFields :
            enhanced_transactions[k][f] = transactions[k][f]

\* C15 (amended): each record of the list process_image returns has the title,
\* amount, balance, date, time and datetime of the record that left the
\* deduplication, and a transaction_type; payment_method and sub_title differ
\* only where the record had none; account differs only where a record
\* without sub_title got both from a savings-card number in its title.
C15_OnlyBackfillAndType ==
    \A k \in 1..Len(enhanced_transactions) :
        LET before == transactions[k]
            after == enhanced_transactions[k]
        IN  /\ \A f \in {"title", "amount", "balance", "date", "time",
                          "datetime"} : after[f] = before[f]
            /\ after.transaction_type # <<>>
            /\ after.payment_method # before.payment_method =>
                   before.payment_method = <<>>
            /\ after.sub_title # before.sub_title => before.sub_title = <<>>
            /\ after.account # before.account =>
                   /\ before.sub_title = <<>>
                   /\ after.sub_title = after.account
                   /\ Contains(before.title, after.account)

\* process_image has returned a record whose account, sub-title and payment
\* method it has changed after the deduplication
C15_Witness ==
    /\ text_blocks = S_Card
    /\ pc = "image"
    /\ Len(enhanced_transactions) = 1
    /\ transactions[1].account = F_Card1111
    /\ enhanced_transactions[1].account # F_Card1111
    /\ enhanced_transactions[1].payment_method = W_YinHangKa
    /\ enhanced_transactions[1].transaction_type = T_Repayment

\* C16: the exit status of the process is a success status exactly when run
\* returned success; every failure of run gives a failure status.
C16_ExitReflectsOutcome ==
    pc = "exited" => (exit_status = 0 <=> success = "True")

\* the records of the images processed so far, in order
RECURSIVE ResultsUpTo(_)
ResultsUpTo(k) ==
    IF k = 0 THEN <<>> ELSE ResultsUpTo(k - 1) \o outputs[k].result

\* C17: batch_process attempts each image once, in order; a raised exception
\* or an empty result neither ends the loop nor touches the records gathered
\* before; successful_images + failed_images is the number of images, and
\* the returned list is the results of the successful images, in order.
C17_BatchSkipsFailures ==
    /\ Len(outputs) = image_index
    /\ \A k \in 1..Len(outputs) : outputs[k].image = image_files[k]
    /\ successful_images + failed_images = image_index
    /\ successful_images
       = Cardinality({k \in 1..Len(outputs) : outputs[k].result # <<>>})
    /\ all_transactions = ResultsUpTo(Len(outputs))
    /\ pc = "batch_done" => image_index = Len(image_files)

\* the batch has returned; its first and third image gave records, the second
\* raised an exception
C17_Witness ==
    /\ pc = "batch_done"
    /\ Len(outputs) = 3
    /\ outputs[1].result # <<>>
    /\ outputs[2].raised
    /\ outputs[3].result # <<>>
    /\ outputs[3].result # outputs[1].result
    /\ Len(all_transactions) = 2

MaxSupplementLen == 3
MaxExisting == 2

SupplementFragments ==
    {F_Insurance, F_Transfer, F_Amount3007, F_Amount4500, F_Balance}

SupplementStreams == StreamsOver(SupplementFragments, MaxSupplementLen)

ExistingLists == {<<>>} \cup StreamsOver(CandidateRecords, MaxExisting)

\* the call _supplement_missing_transactions(text_blocks, transactions);
\* candidates keeps the list as the caller passed it
InitSupplement ==
    /\ text_blocks \in SupplementStreams
    /\ pc = "windows"
    /\ time_points = <<>>
    /\ tier = 0
    /\ i = 0
    /\ windows = <<>>
    /\ transactions \in ExistingLists
    /\ candidates = transactions
    /\ d = 0
    /\ cleaned_transactions = <<>>
    /\ seen_keys = {}
    /\ round = 1
    /\ first_output = <<>>
    /\ InitOuter

NextSupplement ==
    \/ SupplementMissed
    \/ SupplementFirstRecord

SpecSupplement == InitSupplement /\ [][NextSupplement]_vars

StartsWith(list, prefix) ==
    /\ Len(prefix) <= Len(list)
    /\ SubSeq(list, 1, Len(prefix)) = prefix

\* C19: after each pass of _supplement_missing_transactions, and so in the list
\* it returns, the records passed in come first, unchanged and in their order;
\* every record added stands after them, none is removed or modified
C19_SupplementKeepsPrefix ==
    pc \in {"first_record", "clean"} => StartsWith(transactions, candidates)

\* the function has returned a list with two existing records and a record of
\* each pass appended to them
C19_Witness ==
    /\ pc = "clean"
    /\ Len(candidates) = 2
    /\ Len(transactions) = 4
    /\ transactions[3] \notin {candidates[1], candidates[2]}
    /\ transactions[3].title = F_Insurance
    /\ transactions[4] = R_Pair3007

(***************************************************************************)
(* _generate_quality_report on arbitrary record lists, called twice        *)
(***************************************************************************)
MaxReportLen == 3

\* records with more and more of the seven fields filled; the first two have
\* no transaction_type key, the last has every field empty
Q_Bare == FirstTransaction
Q_Window == R_Pair3007Window
Q_Typed == Enhanced(R_Pair3007, C_Other)
Q_Full ==
    [Q_Typed EXCEPT !.payment_method = W_YinHangKa, !.account = F_Account]
Q_Untitled == [Q_Full EXCEPT !.title = <<>>, !.transaction_type = C_Unknown]
Q_Empty == [f \in DOMAIN Q_Typed |-> <<>>]

ReportRecords == {Q_Bare, Q_Window, Q_Typed, Q_Full, Q_Untitled, Q_Empty}

ReportLists == {<<>>} \cup StreamsOver(ReportRecords, MaxReportLen)

\* the call _generate_quality_report(all_transactions); candidates keeps the
\* list as the caller passed it
InitQuality ==
    /\ text_blocks = <<>>
    /\ pc = "report"
    /\ time_points = <<>>
    /\ tier = 0
    /\ i = 0
    /\ windows = <<>>
    /\ transactions = <<>>
    /\ all_transactions \in ReportLists
    /\ candidates = all_transactions
    /\ d = 0
    /\ cleaned_transactions = <<>>
    /\ seen_keys = {}
    /\ round = 1
    /\ first_output = <<>>
    /\ matches = <<>>
    /\ calls = <<>>
    /\ enhanced_transactions = <<>>
    /\ image_files = <<>>
    /\ image_index = 0
    /\ successful_images = 0
    /\ failed_images = 0
    /\ outputs = <<>>
    /\ success = "none"
    /\ exit_status = -1
    /\ quality_report = <<>>
    /\ EASYOCR_AVAILABLE = TRUE
    /\ OPENPYXL_AVAILABLE = TRUE
    /\ input_dir_exists = TRUE

\* the function runs and returns its report
GenerateReport ==
    /\ pc = "report"
    /\ quality_report' = GenerateQualityReport(all_transactions)
    /\ pc' = "reported"
    /\ UNCHANGED <<text_blocks, time_points, tier, i, windows, transactions,
                   candidates, d, cleaned_transactions, seen_keys, round,
                   first_output, classifyVars, enhanced_transactions,
                   batchVars, mainVars>>

\* the function is called again on the same list
ReportAgain ==
    /\ pc = "reported"
    /\ round = 1
    /\ first_output' = quality_report
    /\ round' = 2
    /\ pc' = "report"
    /\ UNCHANGED <<text_blocks, time_points, tier, i, windows, transactions,
                   candidates, d, cleaned_transactions, seen_keys,
                   classifyVars, enhanced_transactions, batchVars, mainVars,
                   quality_report>>

NextQuality ==
    \/ GenerateReport
    \/ ReportAgain

SpecQuality == InitQuality /\ [][NextQuality]_vars

\* the text of a rate of t tenths of a percent
TenthsText(t) ==
    DecimalDigits(t \div 10) \o <<".", DigitChar(t % 10), "%">>

\* text is the rate n / dd in percent, to the nearest tenth
IsRateOf(text, n, dd) ==
    \E t \in 0..1000 :
        /\ text = TenthsText(t)
        /\ 2 * (t * dd - 1000 * n) <= dd
        /\ 2 * (1000 * n - t * dd) <= dd

\* the number of records of the list whose field is non-empty
NonEmptyCount(field) ==
    Cardinality({k \in 1..Len(all_transactions) :
                    /\ field \in DOMAIN all_transactions[k]
                    /\ all_transactions[k][field] # <<>>})

\* the report has the seven field rows in order, each with its counts and its
\* rate, and an eighth row with the mean of the seven rates
ReportRowsRight ==
    /\ Len(quality_report) = Len(ReportFields) + 1
    /\ \A k \in 1..Len(ReportFields) :
           /\ quality_report[k].name = ReportFields[k]
           /\ quality_report[k].complete = NonEmptyCount(ReportFields[k])
           /\ quality_report[k].total = Len(all_transactions)
           /\ Len(all_transactions) > 0
           /\ IsRateOf(quality_report[k].rate, NonEmptyCount(ReportFields[k]),
                       Len(all_transactions))
    /\ quality_report[Len(ReportFields) + 1].name = "overall"
    /\ IsRateOf(quality_report[Len(ReportFields) + 1].rate,
                NonEmptyCount("title") + NonEmptyCount("datetime")
                + NonEmptyCount("amount") + NonEmptyCount("balance")
                + NonEmptyCount("payment_method") + NonEmptyCount("account")
                + NonEmptyCount("transaction_type"),
                7 * Len(all_transactions))

\* the call has left the list as it was, and a second call has returned the
\* report of the first
ReportPure ==
    /\ all_transactions = candidates
    /\ round = 2 => quality_report = first_output

\* C20 as stated: for every record list, the empty one included,
\* _generate_quality_report returns the seven field rows with their counts and
\* the aggregate row with the mean rate, leaves the list unchanged and returns
\* the same report when called again
C20_ReportRowsForEveryList ==
    pc = "reported" => ReportRowsRight /\ ReportPure

\* C20: for every non-empty record list _generate_quality_report returns the
\* seven field rows with their counts and the aggregate row with the mean rate
\* (rates to one decimal); for the empty list it returns no row at all; in both
\* cases it leaves the list unchanged and returns the same report when called
\* again
C20_ReportRowsForNonEmptyList ==
    pc = "reported" =>
        /\ IF all_transactions = <<>> THEN quality_report = <<>>
           ELSE ReportRowsRight
        /\ ReportPure

\* the report of three records has been computed a second time: three titles,
\* one balance, and a mean rate of 12 / 21
C20_Witness ==
    /\ pc = "reported"
    /\ round = 2
    /\ all_transactions = <<Q_Bare, Q_Window, Q_Full>>
    /\ quality_report[1].complete = 3
    /\ quality_report[4].complete = 1
    /\ quality_report[4].rate = <<"3", "3", ".", "3", "%">>
    /\ quality_report[8].rate = <<"5", "7", ".", "1", "%">>

(***************************************************************************)
(* The order of the three tiers                                            *)
(***************************************************************************)
\* some fragment of the stream has a range-valid timestamp match
StreamHasValidTimestamp ==
    \E n \in 1..Len(text_blocks) : HasRangeValidMatch(text_blocks[n])

\* the time point was made by the synthetic tier ('pattern': 'virtual')
IsVirtual(tp) == tp.pattern = 0

\* C21: the tiers are tried in order and detection stops at the first tier
\* that yields a time point: tier 2 is entered only when no fragment has a
\* range-valid timestamp and tier 3 only when tiers 1 and 2 found nothing;
\* with a range-valid timestamp in the stream the time points are those of
\* the pattern tier and none is virtual; virtual time points exist only when
\* tiers 1 and 2 found nothing, and then every time point is virtual.  What
\* the tiers found is compared with time_points as detection ends (the window
\* loop not yet started); time_points is not written afterwards.
C21_TiersInOrder ==
    /\ pc = "context" => ~StreamHasValidTimestamp
    /\ pc = "synthetic" =>
           /\ PatternTier(text_blocks) = <<>>
           /\ ContextFallbackTier(text_blocks) = <<>>
    /\ (pc = "windows" /\ i = 0 /\ StreamHasValidTimestamp) =>
           time_points = PatternTier(text_blocks)
    /\ (pc = "windows" /\ i = 0
        /\ \E k \in 1..Len(time_points) : IsVirtual(time_points[k])) =>
           /\ PatternTier(text_blocks) = <<>>
           /\ ContextFallbackTier(text_blocks) = <<>>
    /\ StreamHasValidTimestamp =>
           \A k \in 1..Len(time_points) : ~IsVirtual(time_points[k])
    /\ (\E k \in 1..Len(time_points) : IsVirtual(time_points[k])) =>
           \A k \in 1..Len(time_points) : IsVirtual(time_points[k])

\* detection has ended on a stream with a keyword fragment, a timestamp and
\* an amount: the one time point is the timestamp's, found by pattern 1
C21_Witness ==
    /\ text_blocks = <<F_Transfer, F_TimeJoined, F_Amount3007>>
    /\ pc = "windows"
    /\ Len(time_points) = 1
    /\ time_points[1].index = 1
    /\ time_points[1].pattern = 1

(***************************************************************************)
(* Timestamp fragments inside a window                                     *)
(***************************************************************************)
\* the text matches one of the patterns of the detector
MatchesTimePattern(text) ==
    \E p \in 1..Len(time_patterns) : TimeSearch(time_patterns[p], text)

\* the fragments of a window that match none of them
WithoutTimestamps(texts) ==
    SelectSeq(texts, LAMBDA text : ~MatchesTimePattern(text))

\* C22: in every window, field extraction passes over every fragment that
\* matches one of the timestamp patterns of the detector, the anchor fragment
\* among them: no field of the record is taken from such a fragment, so the
\* record is the one the window gives without these fragments
C22_TimestampFragmentsSkipped ==
    \A k \in 1..Len(windows) :
        /\ WindowRecord(k)
           = ExtractWindow(time_points[k], WithoutTimestamps(WindowTexts(k)))
        /\ \A n \in 1..Len(WindowTexts(k)) :
               MatchesTimePattern(WindowTexts(k)[n]) =>
                   /\ WindowRecord(k).title # WindowTexts(k)[n]
                   /\ WindowRecord(k).sub_title # WindowTexts(k)[n]
                   /\ WindowRecord(k).payment_method # WindowTexts(k)[n]

(***************************************************************************)
(* The payment method of a window                                          *)
(***************************************************************************)
\* the positions in the window of the fragments the loop reads that hold a
\* payment-channel name
PaymentPositions(k) ==
    {n \in 1..Len(WindowTexts(k)) :
        /\ ~IsSkippedTimestamp(WindowTexts(k)[n])
        /\ ContainsAny(WindowTexts(k)[n], PaymentMethods)}

\* C23: for every window, payment_method is the text of the first fragment of
\* the window that holds a payment-channel name; later fragments with such a
\* name do not change it
C23_FirstPaymentFragmentStored ==
    \A k \in 1..Len(windows) :
        WindowRecord(k).payment_method
        = IF PaymentPositions(k) = {} THEN <<>>
          ELSE WindowTexts(k)[Min(PaymentPositions(k))]

(***************************************************************************)
(* The patterns of supplement pass 1 against those of field extraction     *)
(***************************************************************************)
\* a record with every field empty
BlankRecord == SupplementTransaction(<<>>)

\* the amount field extraction takes from the fragment, unless its numeric
\* portion has a date/time shape
AmountUnlessTimeShaped(text) ==
    LET amount == ExtractFragment(BlankRecord, text).amount
    IN  IF amount # <<>> /\ ~LooksLikeTime(Tail(amount)) THEN amount ELSE <<>>

\* C24: for every fragment in the neighbourhood (3 on each side) of a keyword
\* fragment, pass 1 accepts a balance, an account and a payment method exactly
\* when field extraction accepts it from that fragment, and an amount exactly
\* when field extraction accepts it and its numeric portion has no date/time
\* shape
C24_Pass1SamePatterns ==
    pc \in {"first_record", "clean", "dedup", "done"} =>
        \A n \in 1..Len(text_blocks) :
            ContainsAny(text_blocks[n], MissingKeywords) =>
                \A j \in Neighbourhood(text_blocks, n, 3) :
                    LET text == text_blocks[j]
                        sup == SupplementFragment(BlankRecord, text)
                        ext == ExtractFragment(BlankRecord, text)
                    IN  /\ sup.amount = AmountUnlessTimeShaped(text)
                        /\ sup.balance = ext.balance
                        /\ sup.account = ext.account
                        /\ sup.payment_method = ext.payment_method

(***************************************************************************)
(* First-record recovery                                                   *)
(***************************************************************************)
\* existing_transactions as pass 2 finds it
BeforePass2 == SupplementPass1(text_blocks, candidates)

\* the fragment holds the amount -30.07
HoldsTargetAmount(text) ==
    <<"-">> \o StripCommas(MinusGroup(text)) = InsuranceAmount

\* the fragment holds a positive balance
HoldsBalance(text) ==
    /\ BalanceGroup(text) # <<>>
    /\ FloatParses(StripCommas(BalanceGroup(text)))
    /\ FloatPositive(StripCommas(BalanceGroup(text)))

\* the neighbourhood (2 on each side) of the fragment at position n, a
\* fragment with the insurance title, holds the amount and a balance
Recoverable(n) ==
    /\ Contains(text_blocks[n], W_RenShenBaoXianFei)
    /\ \E j \in Neighbourhood(text_blocks, n, 2) :
           HoldsTargetAmount(text_blocks[j])
    /\ \E j \in Neighbourhood(text_blocks, n, 2) : HoldsBalance(text_blocks[j])

\* C25: pass 2 appends a record exactly when it recovers both fields: with no
\* record (insurance title, 04-30 09:40, -30.07) in the list and a fragment
\* with the insurance title whose neighbourhood holds the amount -30.07 and a
\* positive balance, in any order, it appends one record with amount -30.07
\* and that balance; otherwise it appends nothing
C25_AppendsIffBothRecovered ==
    pc = "clean" =>
        IF /\ ~FirstTransactionFound(BeforePass2)
           /\ \E n \in 1..Len(text_blocks) : Recoverable(n)
        THEN /\ Len(transactions) = Len(BeforePass2) + 1
             /\ SubSeq(transactions, 1, Len(BeforePass2)) = BeforePass2
             /\ transactions[Len(transactions)].amount = InsuranceAmount
             /\ \E j \in 1..Len(text_blocks) :
                    /\ HoldsBalance(text_blocks[j])
                    /\ transactions[Len(transactions)].balance
                       = StripCommas(BalanceGroup(text_blocks[j]))
        ELSE transactions = BeforePass2

(***************************************************************************)
(* The context-fallback tier                                               *)
(***************************************************************************)
\* C26: the context-fallback tier never yields a time point: whenever tier 2
\* is entered its search finds nothing, time_points is empty after it and the
\* run goes on to the synthetic tier, so that in a run whose pattern tier
\* found nothing the time points, as detection ends, are those of the
\* synthetic tier
C26_ContextTierYieldsNothing ==
    /\ tier # 2
    /\ pc = "context" => ContextFallbackTier(text_blocks) = <<>>
    /\ pc = "synthetic" => time_points = <<>>
    /\ (pc = "windows" /\ i = 0 /\ PatternTier(text_blocks) = <<>>) =>
           /\ time_points = SyntheticTier(text_blocks)
           /\ \A k \in 1..Len(time_points) : IsVirtual(time_points[k])

\* tier 2 has searched the neighbourhood of a keyword fragment that holds a
\* fragment of timestamp shape out of range, and has left time_points empty
C26_Witness ==
    /\ text_blocks = <<F_Transfer, F_TimeBad>>
    /\ pc = "synthetic"
    /\ time_points = <<>>

(***************************************************************************)
(* The title taken from the payment method                                 *)
(***************************************************************************)
\* the record of the k-th window after the per-fragment loop
LoopRecord(k) == ExtractLoop(NewTransaction(time_points[k]), WindowTexts(k))

\* the window has a fragment the loop reads that is longer than 2 characters
\* and not made of digits, whitespace, "-", the yen sign, "," and "." alone
HasTitleFragment(k) ==
    \E n \in 1..Len(WindowTexts(k)) :
        /\ ~IsSkippedTimestamp(WindowTexts(k)[n])
        /\ Len(WindowTexts(k)[n]) > 2
        /\ ~IsNumericPunct(WindowTexts(k)[n])

\* C27: the title-from-payment-method step never changes a record: in every
\* window, when the payment method holds one of the two wallet names after
\* the per-fragment loop the title is already set, the step leaves the record
\* as it is, and the window's record is kept exactly when the window has a
\* fragment that can be a title.  Each window is examined as the window loop
\* has just processed it.
C27_TitleFromPaymentNeverTaken ==
    (pc = "windows" /\ windows # <<>>) =>
        LET k == Len(windows)
            tr == LoopRecord(k)
        IN  /\ (\/ Contains(tr.payment_method, W_WeiXinZhiFu)
                \/ Contains(tr.payment_method, W_ZhiFuBao)) =>
                   tr.title # <<>>
            /\ TitleFromPayment(tr) = tr
            /\ KeepRecord(SubTitleBackfill(tr, WindowTexts(k)))
               <=> HasTitleFragment(k)

\* a window whose only fragment besides the skipped anchor holds a wallet name
\* and a "-": the fragment is the title and the payment method of the record
C27_Witness ==
    /\ text_blocks = <<F_TimeJoined, F_WeChat>>
    /\ pc = "windows"
    /\ Len(windows) = 1
    /\ Len(transactions) >= 1
    /\ transactions[1].payment_method = F_WeChat
    /\ transactions[1].title = F_WeChat
====
